---- MODULE Spec2Model ----
(***************************************************************************)
(* A model of clcache: the compile pipeline (processDirect,                *)
(* processNoDirect, processCacheHit, ensureArtifactsExist), the manifest   *)
(* and object stores, the statistics document, the section locks, the      *)
(* global cache lock and eviction (cleanCache / clearCache).               *)
(*                                                                         *)
(* Hashes are modelled by the data they are computed from (no collisions): *)
(* a manifest hash is the source it is computed for, an includes content   *)
(* hash is the content of the hashed header, an object key is the tuple    *)
(* of the values hashed into it.                                           *)
(***************************************************************************)
EXTENDS Integers, Sequences, FiniteSets, TLC

\* ------------------------------------------------------------- bounds
\* compile jobs run one after the other in the sequential specification
MaxRunsSeq == 3
\* compile jobs of each of the two concurrent processes
MaxRunsConc == 1
\* header edits between jobs
MaxEdits == 2
\* maintenance commands (clean, clear, set-size)
MaxMaint == 1
\* setEntry calls and process deaths in the study of one object section
MaxSets == 3
MaxCrashes == 2
\* length of the manifest under study at the start, and calls of its methods
MaxManifestLen == 100
MaxManifestOps == 2
\* direct-mode jobs and header edits of the alternating-header runs
MaxRunsDirect == 4
MaxEditsDirect == 3
\* jobs and direct calls of Statistics methods in the study of the counters
MaxRunsStats == 2
MaxStatOps == 3
\* lock timeouts and process deaths beside the concurrent jobs
MaxTimeouts == 1
MaxDeaths == 1
\* header edits while the jobs of one invocation run
MaxEditsSchedule == 1
\* invocations the command line analysis rejects, beside one compile job
MaxRejections == 1
\* clear commands one after the other, beside two compile jobs
MaxClears == 2

\* ------------------------------------------------------------- program constants
DefaultMaximumCacheSize == 1073741824
MAX_MANIFEST_HASHES == 100

\* ------------------------------------------------------------- domains
Jobs == {"p1", "p2"}
AllProcs == Jobs \cup {"mt"}
NoProc == "none"
\* the owner of a mutex whose owning thread ended without releasing it
Abandoned == "dead"

\* source files; the manifest hash of a job is modelled by its source
Srcs == {1, 2}
\* the two places the source's #include can resolve to (first found wins)
Files == {1, 2}
\* header contents; 0 is an absent file
Contents == {1, 2}
Contents0 == {0} \cup Contents
\* values of MaximumCacheSize given to set-size
SizeChoices == {1, 210, 300, 600}

\* getManifestHash: one manifest per (compiler, command line, source)
ManifestShard(m) == m
\* computeKeyDirect / computeKeyNodirect: the hashed values
KeyDirect(m, c) == <<"d", m, c>>
KeyNodirect(m, c) == <<"n", m, c>>
Keys == {"d", "n"} \X Srcs \X Contents0
NoKey == <<"x", 0, 0>>
\* CompilerArtifactsRepository.section: the shard of a key (key[:2])
ObjectShard(k) == k[2]
Shards == Srcs

\* size of the object file the compiler writes for a source
ObjSizeOf(m) == IF m = 1 THEN 200 ELSE 300
\* size of a manifest file: grows with its entries
ManifestSize(es) == 5 * (1 + Len(es))

NoEntry == [inc |-> 0, hash |-> 0, key |-> NoKey]
NoObject == [present |-> FALSE, size |-> 0, obj |-> <<0, 0>>]
NoManifest == [exists |-> FALSE, entries |-> <<>>, broken |-> FALSE]
\* a manifest file whose content is not JSON
BrokenManifest == [exists |-> TRUE, entries |-> <<>>, broken |-> TRUE]
\* the seven counters of calls that are not cached (stats.py)
CallCounters == {"CallsWithInvalidArgument", "CallsWithoutSourceFile",
                 "CallsWithMultipleSourceFiles", "CallsWithPch", "CallsForLinking",
                 "CallsForExternalDebugInfo", "CallsForPreprocessing"}
NoCalls == [k \in CallCounters |-> 0]
ZeroStats == [hits |-> 0, misses |-> 0, evicted |-> 0, hdrMiss |-> 0,
              srcMiss |-> 0, entries |-> 0, size |-> 0, calls |-> NoCalls]

ManLock(s) == <<"man", s>>
ObjLock(s) == <<"obj", s>>
StatsLock == <<"stats", 0>>
Locks == {ManLock(s) : s \in Shards} \cup {ObjLock(s) : s \in Shards} \cup {StatsLock}

VARIABLES
    conc,       \* TRUE: jobs and commands of several processes interleave
    hdr,        \* header files on disk: Files -> Contents0
    cfgMax,     \* config.txt: MaximumCacheSize
    stats,      \* stats.txt
    manifests,  \* manifests/<hh>/<m>.json: Srcs -> [exists, entries]
    manOrder,   \* manifest files by ascending access time
    manDirs,    \* manifest section directories that exist
    objects,    \* objects/<hh>/<key>/: Keys -> [present, size, obj]
    objOrder,   \* object entries by ascending access time
    objDirs,    \* object section directories that exist
    locks,      \* named mutexes: Locks -> [owner, count]
    pc,         \* position of each process
    jb,         \* locals of the compile job of each process
    gl,         \* locals of the global-lock holder: [cmd, arg, todo, held]
    st,         \* the statistics document as loaded by each process
    res,        \* result of the last job of each process
    runsLeft, editsLeft, maintLeft,
    gh,         \* history: jobs finished, registrations made, the first job's result
    entryDirs,  \* one object section in detail: <<key, "final" or "new">> -> directory
    sePc,       \* position of the process inside setEntry
    seJob,      \* the key and artifacts of the setEntry in progress
    published,  \* history: keys whose os.replace has happened since their removal
    setsLeft,   \* setEntry calls still to make
    crashesLeft,\* process deaths still to happen
    mfEntries,  \* one Manifest object: its _entries list
    mfOpsLeft,  \* addEntry and touchEntry calls still to make
    statOpsLeft,\* calls of Statistics methods still to make
    faults,     \* lock timeouts and process deaths still to happen; locks once abandoned
    sj,         \* the locals of scheduleJobs when p1 and p2 are workers of one invocation
    fn          \* a function of no state under study: its arguments and what it returned

\* the state of the two studies of single objects, which the pipeline leaves alone
extras == <<statOpsLeft, faults, sj, fn>>
aside == <<entryDirs, sePc, seJob, published, setsLeft, crashesLeft, mfEntries, mfOpsLeft,
           extras>>

\* the state of the cache directory and of the processes working on it
pipeline == <<conc, hdr, cfgMax, stats, manifests, manOrder, manDirs, objects, objOrder,
              objDirs, locks, pc, jb, gl, st, res, runsLeft, editsLeft, maintLeft, gh>>

vars == <<pipeline, aside>>

\* ------------------------------------------------------------- sequences
Without(s, x) == SelectSeq(s, LAMBDA y : y # x)
\* the file's access time becomes the newest
Touched(s, x) == Append(Without(s, x), x)

RECURSIVE SortedSeq(_)
SortedSeq(S) ==
    IF S = {} THEN <<>>
    ELSE LET x == CHOOSE y \in S : \A z \in S : y <= z
         IN  <<x>> \o SortedSeq(S \ {x})

Range(s) == {s[i] : i \in 1..Len(s)}

\* ------------------------------------------------------------- Manifest
\* Manifest.addEntry: insert(0, entry)
AddEntry(entries, entry) == <<entry>> \o entries

\* next(i for i, e in enumerate(entries) if e.objectHash == objectHash, 0)
FirstIndexOf(entries, objectHash) ==
    IF \E i \in 1..Len(entries) : entries[i].key = objectHash
    THEN CHOOSE i \in 1..Len(entries) :
            /\ entries[i].key = objectHash
            /\ \A j \in 1..(i - 1) : entries[j].key # objectHash
    ELSE 1

\* list.pop(i) then list.insert(0, .)
MoveToFront(entries, i) ==
    <<entries[i]>> \o SubSeq(entries, 1, i - 1) \o SubSeq(entries, i + 1, Len(entries))

\* Manifest.touchEntry
TouchEntry(entries, objectHash) == MoveToFront(entries, FirstIndexOf(entries, objectHash))

\* ManifestSection.getManifest returns a Manifest: the file exists and json.load
\* does not raise ValueError
Readable(man) == man.exists /\ ~man.broken

\* ------------------------------------------------------------- headers
\* the header the compiler includes: the first of the two places that has the file
IncludedFile(h) == IF h[1] # 0 THEN 1 ELSE IF h[2] # 0 THEN 2 ELSE 0
IncludedContent(h) == IF IncludedFile(h) = 0 THEN 0 ELSE h[IncludedFile(h)]

\* processDirect's test of one manifest entry: getIncludesContentHashForFiles raises
\* IncludeNotFoundException for an absent file (the entry is skipped), else the
\* hash of the current content is compared with the stored one
EntryMatches(e, h) == /\ e.inc # 0
                      /\ h[e.inc] # 0
                      /\ h[e.inc] = e.hash

\* a lookup that tests the newest entry only
NewestEntryOnly(entries, from, h) ==
    IF from = 1 /\ Len(entries) >= 1 /\ EntryMatches(entries[1], h) THEN 1 ELSE 0

\* the first entry at index >= from that matches; 0 when the loop runs out
NextMatch(entries, from, h) ==
    IF \E i \in from..Len(entries) : EntryMatches(entries[i], h)
    THEN CHOOSE i \in from..Len(entries) :
            /\ EntryMatches(entries[i], h)
            /\ \A j \in from..(i - 1) : ~EntryMatches(entries[j], h)
    ELSE 0

\* createManifestEntry for the header the compiler included
CreateManifestEntry(m, h) ==
    [inc |-> IncludedFile(h), hash |-> IncludedContent(h),
     key |-> KeyDirect(m, IncludedContent(h))]

\* ------------------------------------------------------------- eviction
\* A limit of CacheFileStrategy.clean is pct percent of maximumSize: 9 for the
\* manifests (0.9 * 0.1), 81 for the objects (0.9 - 0.9 * 0.1). The comparisons
\* are written without the product pct * maximumSize.
LeqLimit(x, pct, maximumSize) == (100 * x + pct - 1) \div pct <= maximumSize
LtLimit(x, pct, maximumSize) == (100 * x) \div pct < maximumSize

\* ManifestRepository.clean: newest first, keep a file if it still fits
RECURSIVE ManifestCleanFrom(_, _, _, _, _, _)
ManifestCleanFrom(mans, order, i, keep, size, maximumSize) ==
    IF i = 0 THEN [keep |-> keep, size |-> size]
    ELSE LET m == order[i]
             s == ManifestSize(mans[m].entries)
         IN  IF LeqLimit(size + s, 9, maximumSize)
             THEN ManifestCleanFrom(mans, order, i - 1, keep \cup {m}, size + s, maximumSize)
             ELSE ManifestCleanFrom(mans, order, i - 1, keep, size, maximumSize)

ManifestRepositoryClean(mans, order, maximumSize) ==
    ManifestCleanFrom(mans, order, Len(order), {}, 0, maximumSize)

RECURSIVE SumObjectSizes(_, _)
SumObjectSizes(objs, order) ==
    IF order = <<>> THEN 0
    ELSE objs[Head(order)].size + SumObjectSizes(objs, Tail(order))

\* the loop of CompilerArtifactsRepository.clean: remove, subtract, then test
RECURSIVE RemovedItems(_, _, _, _, _)
RemovedItems(objs, order, i, current, maximumSize) ==
    IF i > Len(order) THEN Len(order)
    ELSE LET c == current - objs[order[i]].size
         IN  IF LtLimit(c, 81, maximumSize) THEN i
             ELSE RemovedItems(objs, order, i + 1, c, maximumSize)

\* a loop that never breaks: every object is removed
CleanWithoutBreak(objs, order, maximumSize) == [order |-> <<>>, count |-> 0, size |-> 0]

\* CompilerArtifactsRepository.clean: oldest first
CompilerArtifactsRepositoryClean(objs, order, maximumSize) ==
    LET n == RemovedItems(objs, order, 1, SumObjectSizes(objs, order), maximumSize)
        left == SubSeq(order, n + 1, Len(order))
    IN  [order |-> left, count |-> Len(order) - n, size |-> SumObjectSizes(objs, left)]

\* ------------------------------------------------------------- locks
\* a mutex that never makes anybody wait
NoWaiting(lk, p, l) == TRUE

\* an acquire that takes a failure of every result but WAIT_OBJECT_0
FreeOnly(lk, p, l) == lk[l].owner \in {NoProc, p}

\* WaitForSingleObject returns at once for a free mutex and for the owning thread
\* (0), and for an abandoned mutex (WAIT_ABANDONED): acquire accepts both results
CanAcquire(lk, p, l) == lk[l].owner \in {NoProc, p, Abandoned}

\* a mutex that does not count the acquisitions of its owner
AcquiredUncounted(lk, p, l) == [lk EXCEPT ![l] = [owner |-> p, count |-> 1]]

\* CacheLock.acquire: the owner's recursion count goes up
Acquired(lk, p, l) == [lk EXCEPT ![l] = [owner |-> p, count |-> @.count + 1]]

\* a holder that leaves the with statement without ReleaseMutex
ReleaseForgotten(lk, p, l) == lk

\* a section lock that is kept when its with statement ends
SectionLockKept(lk, p, l) ==
    IF l[1] = "stats" /\ lk[l].owner = p THEN [lk EXCEPT ![l] = [owner |-> NoProc, count |-> 0]]
    ELSE lk

\* CacheLock.release: ReleaseMutex, which only the owner can do
Released(lk, p, l) ==
    IF lk[l].owner # p THEN lk
    ELSE IF lk[l].count > 1 THEN [lk EXCEPT ![l].count = @ - 1]
    ELSE [lk EXCEPT ![l] = [owner |-> NoProc, count |-> 0]]

RECURSIVE ReleasedAll(_, _, _)
ReleasedAll(lk, p, ls) ==
    IF ls = <<>> THEN lk ELSE ReleasedAll(Released(lk, p, Head(ls)), p, Tail(ls))

HeldBy(p) == {l \in Locks : locks[l].owner = p}

\* ------------------------------------------------------------- statistics
RegisterCacheHit(s) == [s EXCEPT !.hits = @ + 1]
RegisterCacheMiss(s) == [s EXCEPT !.misses = @ + 1]
RegisterHeaderChangedMiss(s) == [RegisterCacheMiss(s) EXCEPT !.hdrMiss = @ + 1]
RegisterSourceChangedMiss(s) == [RegisterCacheMiss(s) EXCEPT !.srcMiss = @ + 1]
\* a registration that adds the size and forgets the entry
RegisterSizeOnly(s, size) == [s EXCEPT !.size = @ + size]

\* Statistics.registerCacheEntry
RegisterCacheEntry(s, size) == [s EXCEPT !.entries = @ + 1, !.size = @ + size]

\* an evicted miss that is not counted as a miss
EvictedOnly(s) == [s EXCEPT !.evicted = @ + 1]

RegisterEvictedMiss(s) == [RegisterCacheMiss(s) EXCEPT !.evicted = @ + 1]

\* a reset that zeroes the gauges CacheEntries and CacheSize as well
ResetEverything(s) == ZeroStats

\* Statistics.resetCounters: for k in RESETTABLE_KEYS: self._stats[k] = 0
ResetCounters(s) == [s EXCEPT !.hits = 0, !.misses = 0, !.evicted = 0, !.hdrMiss = 0,
                              !.srcMiss = 0, !.calls = NoCalls]

\* a job that calls every miss a source-changed one
AlwaysSourceChanged(s, reason) == RegisterSourceChangedMiss(s)

\* the miss reason a job passes to ensureArtifactsExist
RegisterReason(s, reason) ==
    CASE reason = "hdr" -> RegisterHeaderChangedMiss(s)
      [] reason = "src" -> RegisterSourceChangedMiss(s)
      [] OTHER -> RegisterCacheMiss(s)

\* ------------------------------------------------------------- initial state
InitJob == [src |-> 0, direct |-> TRUE, key |-> NoKey, mhit |-> FALSE, reason |-> "none",
            lman |-> <<>>, idx |-> 0, ok |-> FALSE, objc |-> <<0, 0>>, entry |-> NoEntry,
            cleanup |-> FALSE, compiled |-> FALSE]
InitGl == [cmd |-> "none", arg |-> 0, todo |-> <<>>, held |-> <<>>]
NoRes == [outcome |-> "none", src |-> 0, direct |-> TRUE, rc |-> 0, out |-> <<0, 0>>,
          compiled |-> FALSE, key |-> NoKey, inc |-> 0, reason |-> "none"]
InitGh == [jobs |-> 0, hitRegs |-> 0, missRegs |-> 0, skips |-> 0, ppfails |-> 0,
           evictions |-> 0, first |-> NoRes, alt |-> 0, quiet |-> FALSE, fails |-> 0,
           plain |-> 0, done |-> <<>>]

\* history of the alternating-header run: alt counts the jobs and edits made so far
\* when they were, in turn, a successful direct-mode job of one source that
\* includes header 1 and an edit that gives header 1 the other of its two contents
\* (1 after the first job, 2 after the first edit, .. 7 after the fourth job); it
\* is -1 once anything else has happened
AltAfterJob(h, r, headers) ==
    IF h.alt = 0 /\ h.jobs = 0
    THEN IF r.direct /\ r.rc = 0 /\ headers[1] # 0 THEN 1 ELSE -1
    ELSE IF h.alt \in {2, 4, 6} /\ r.direct /\ r.rc = 0 /\ r.src = h.first.src
         THEN h.alt + 1 ELSE -1

AltAfterEdit(h, f, c) ==
    IF h.alt = 0 THEN 0
    ELSE IF h.alt \in {1, 5} /\ f = 1 /\ c \notin {0, h.first.out[2]} THEN h.alt + 1
    ELSE IF h.alt = 3 /\ f = 1 /\ c = h.first.out[2] THEN 4
    ELSE -1

\* no process holds a lock or is inside a job or a command
IdleProcesses ==
    /\ locks = [l \in Locks |-> [owner |-> NoProc, count |-> 0]]
    /\ pc = [p \in AllProcs |-> "idle"]
    /\ jb = [p \in Jobs |-> InitJob]
    /\ gl = [p \in AllProcs |-> InitGl]
    /\ st = [p \in AllProcs |-> ZeroStats]
    /\ res = [p \in Jobs |-> NoRes]

\* an empty cache directory: no manifest, no object, no stats.txt, no config.txt
InitCache ==
    /\ hdr \in [Files -> Contents0]
    /\ cfgMax = DefaultMaximumCacheSize
    /\ stats = ZeroStats
    /\ manifests = [m \in Srcs |-> NoManifest]
    /\ manOrder = <<>>
    /\ manDirs = {}
    /\ objects = [k \in Keys |-> NoObject]
    /\ objOrder = <<>>
    /\ objDirs = {}
    /\ IdleProcesses
    /\ gh = InitGh

\* ------------------------------------------------------------- one object section
\* keys of one section, hence under one section lock
SeKeys == {"k1", "k2"}
\* CompilerArtifactsSection.cacheEntryDir(key)
CacheEntryDir(k) == <<k, "final">>
\* a setEntry that writes into the entry directory itself
InPlaceEntryDir(k) == <<k, "final">>
\* setEntry: tempEntryDir = cacheEntryDir + '.new'
TempEntryDir(k) == <<k, "new">>
SeDirs == {CacheEntryDir(k) : k \in SeKeys} \cup {<<k, "new">> : k \in SeKeys}
\* a directory that does not exist; a file is absent, partial or complete
NoDir == [exists |-> FALSE, object |-> "absent", output |-> "absent",
          stderr |-> "absent", wantErr |-> FALSE]
NoSeJob == [key |-> "none", stderr |-> FALSE]

NoFaults == [timeouts |-> 0, deaths |-> 0, abandoned |-> {}]

\* every job is an invocation of its own (one source file): no thread pool
NoSchedule == [phase |-> "off", direct |-> TRUE, initial |-> {}, consumed |-> <<>>,
               exitCode |-> 0, cleanupRequired |-> FALSE, cleaned |-> FALSE,
               observed |-> FALSE, outputLock |-> "none", wr |-> [job |-> "none", stream |-> "none", part |-> 0],
               written |-> <<>>, tracesLeft |-> 0]

\* no function is under study
NoCall == [name |-> "none"]

\* no method of Statistics is called from outside the pipeline; no acquire times
\* out and no process dies
ExtrasIdle == statOpsLeft = 0 /\ faults = NoFaults /\ sj = NoSchedule /\ fn = NoCall

\* the studies of one section and of one manifest are not running
StudiesIdle ==
    /\ entryDirs = [d \in SeDirs |-> NoDir]
    /\ sePc = "idle"
    /\ seJob = NoSeJob
    /\ published = {}
    /\ setsLeft = 0
    /\ crashesLeft = 0
    /\ mfEntries = <<>>
    /\ mfOpsLeft = 0

AsideIdle == StudiesIdle /\ ExtrasIdle

\* one process, one compile job or command at a time
InitSeq ==
    /\ InitCache
    /\ hdr[1] = 1
    /\ AsideIdle
    /\ conc = FALSE
    /\ runsLeft = [p \in Jobs |-> IF p = "p1" THEN MaxRunsSeq ELSE 0]
    /\ editsLeft = MaxEdits
    /\ maintLeft = MaxMaint

AllIdle == \A q \in AllProcs : pc[q] = "idle"
OthersIdle(p) == \A q \in AllProcs \ {p} : pc[q] = "idle"

\* ------------------------------------------------------------- the end of a job
\* what a job returned, and how it came to it; inc is the place its header was in
JobResult(p, outcome, rc, out) ==
    [outcome |-> outcome, src |-> jb[p].src, direct |-> jb[p].direct, rc |-> rc,
     out |-> out, compiled |-> jb[p].compiled, key |-> jb[p].key, inc |-> IncludedFile(hdr),
     reason |-> jb[p].reason]

\* processSingleSource has returned (exitCode, out, err, doCleanup) to scheduleJobs.
\* With one source scheduleJobs goes on in the same thread and runs cleanCache when
\* cleanup is required; with several the future of the worker is done
Finish(p, outcome, rc, out, cleanup) ==
    /\ res' = [res EXCEPT ![p] = JobResult(p, outcome, rc, out)]
    /\ jb' = [jb EXCEPT ![p] = InitJob]
    /\ pc' = [pc EXCEPT ![p] = IF cleanup /\ sj.phase = "off" THEN "gl_start" ELSE "idle"]
    /\ gl' = [gl EXCEPT ![p] = IF cleanup /\ sj.phase = "off"
                               THEN [InitGl EXCEPT !.cmd = "clean"] ELSE InitGl]
    /\ gh' = [gh EXCEPT !.jobs = @ + 1,
                        !.first = IF gh.jobs = 0 THEN JobResult(p, outcome, rc, out) ELSE @,
                        !.skips = IF outcome = "skip" THEN @ + 1 ELSE @,
                        !.ppfails = IF outcome = "ppfail" THEN @ + 1 ELSE @,
                        !.alt = AltAfterJob(gh, JobResult(p, outcome, rc, out), hdr),
                        !.quiet = ~cleanup,
                        !.fails = IF rc # 0 THEN @ + 1 ELSE @,
                        !.done = IF sj.phase = "off" THEN @
                                 ELSE Append(@, [job |-> p, rc |-> rc, cleanup |-> cleanup])]

\* the exit code of the real compiler: 0, or the code it gives for the source that
\* does not compile (2 for the first source, 3 for the second)
ReturnCode(ok, m) == IF ok THEN 0 ELSE 1 + m

\* the section locks a job holds when ensureArtifactsExist or processCacheHit ends
JobSectionLocks(j) ==
    IF j.direct THEN <<ObjLock(ObjectShard(j.key)), ManLock(ManifestShard(j.src))>>
    ELSE <<ObjLock(ObjectShard(j.key))>>

\* ------------------------------------------------------------- compile jobs
\* scheduleJobs submits processSingleSource for one source
StartJob(p, m, direct) ==
    /\ pc[p] = "idle"
    /\ runsLeft[p] > 0
    /\ conc \/ OthersIdle(p)
    /\ pc' = [pc EXCEPT ![p] = IF direct THEN "pd_lockman" ELSE "pn_preprocess"]
    /\ jb' = [jb EXCEPT ![p] = [InitJob EXCEPT !.src = m, !.direct = direct]]
    /\ runsLeft' = [runsLeft EXCEPT ![p] = @ - 1]
    /\ UNCHANGED <<aside, conc, hdr, cfgMax, stats, manifests, manOrder, manDirs, objects,
                   objOrder, objDirs, locks, gl, st, res, editsLeft, maintLeft, gh>>

\* processDirect: with cache.manifestLockFor(manifestHash): manifest = getManifest(..)
PdLockManifest(p) ==
    LET m == jb[p].src
        l == ManLock(ManifestShard(m))
    IN  /\ pc[p] = "pd_lockman"
        /\ CanAcquire(locks, p, l)
        /\ IF Readable(manifests[m])
           THEN /\ locks' = Acquired(locks, p, l)
                /\ jb' = [jb EXCEPT ![p].lman = manifests[m].entries, ![p].idx = 1,
                                    ![p].reason = "hdr"]
                /\ manOrder' = Touched(manOrder, m)
                /\ pc' = [pc EXCEPT ![p] = "pd_probe"]
           ELSE \* no manifest: SourceChangedMiss, the lock is released again
                /\ jb' = [jb EXCEPT ![p].reason = "src"]
                /\ pc' = [pc EXCEPT ![p] = "pd_compile"]
                /\ UNCHANGED <<locks, manOrder>>
        /\ UNCHANGED <<aside, conc, hdr, cfgMax, stats, manifests, manDirs, objects, objOrder,
                       objDirs, gl, st, res, runsLeft, editsLeft, maintLeft, gh>>

\* ManifestSection.setManifest
ManifestsAfterSet(mans, m, entries) ==
    [mans EXCEPT ![m] = [exists |-> TRUE, entries |-> entries, broken |-> FALSE]]

\* processDirect: the loop over manifest.entries(), up to the next matching entry
PdProbe(p) ==
    LET j == jb[p]
        m == j.src
        i == NextMatch(j.lman, j.idx, hdr)
    IN  /\ pc[p] = "pd_probe"
        /\ IF i = 0
           THEN \* the loop is over: leave the manifest lock, run the compiler
                /\ locks' = Released(locks, p, ManLock(ManifestShard(m)))
                /\ jb' = [jb EXCEPT ![p].idx = 0]
                /\ pc' = [pc EXCEPT ![p] = "pd_compile"]
                /\ UNCHANGED <<manifests, manOrder, manDirs>>
           ELSE LET cachekey == j.lman[i].key
                    touched == IF i > 1 THEN TouchEntry(j.lman, cachekey) ELSE j.lman
                IN  /\ jb' = [jb EXCEPT ![p].lman = touched, ![p].idx = i + 1,
                                        ![p].key = cachekey, ![p].mhit = TRUE]
                    /\ IF i > 1
                       THEN /\ manifests' = ManifestsAfterSet(manifests, m, touched)
                            /\ manOrder' = Touched(manOrder, m)
                            /\ manDirs' = manDirs \cup {ManifestShard(m)}
                       ELSE UNCHANGED <<manifests, manOrder, manDirs>>
                    /\ pc' = [pc EXCEPT ![p] = "pd_lockobj"]
                    /\ UNCHANGED locks
        /\ UNCHANGED <<aside, conc, hdr, cfgMax, stats, objects, objOrder, objDirs, gl, st, res,
                       runsLeft, editsLeft, maintLeft, gh>>

\* with cache.lockFor(cachekey): if cache.hasEntry(cachekey): processCacheHit(..),
\* which enters cache.lockFor(cachekey) once more
LockAndProbeObject(p, missPc) ==
    LET l == ObjLock(ObjectShard(jb[p].key))
    IN  /\ CanAcquire(locks, p, l)
        /\ IF objects[jb[p].key].present
           THEN /\ locks' = Acquired(Acquired(locks, p, l), p, l)
                /\ pc' = [pc EXCEPT ![p] = "hit_stats"]
           ELSE /\ pc' = [pc EXCEPT ![p] = missPc]
                /\ UNCHANGED locks
        /\ UNCHANGED <<aside, conc, hdr, cfgMax, stats, manifests, manOrder, manDirs, objects,
                       objOrder, objDirs, jb, gl, st, res, runsLeft, editsLeft, maintLeft, gh>>

PdLockObject(p) ==
    /\ pc[p] = "pd_lockobj"
    /\ LockAndProbeObject(p, "pd_probe")

\* processCacheHit: with cache.statistics.lock, cache.statistics as stats
HitStats(p) ==
    /\ pc[p] = "hit_stats"
    /\ CanAcquire(locks, p, StatsLock)
    /\ locks' = Acquired(locks, p, StatsLock)
    /\ st' = [st EXCEPT ![p] = stats]
    /\ pc' = [pc EXCEPT ![p] = "hit_save"]
    /\ UNCHANGED <<aside, conc, hdr, cfgMax, stats, manifests, manOrder, manDirs, objects,
                   objOrder, objDirs, jb, gl, res, runsLeft, editsLeft, maintLeft, gh>>

\* stats.registerCacheHit(), then the document is saved and the lock released
HitSave(p) ==
    /\ pc[p] = "hit_save"
    /\ stats' = RegisterCacheHit(st[p])
    /\ locks' = Released(locks, p, StatsLock)
    /\ gh' = [gh EXCEPT !.hitRegs = @ + 1]
    /\ pc' = [pc EXCEPT ![p] = "hit_copy"]
    /\ UNCHANGED <<aside, conc, hdr, cfgMax, manifests, manOrder, manDirs, objects, objOrder,
                   objDirs, jb, gl, st, res, runsLeft, editsLeft, maintLeft>>

\* processCacheHit: getEntry (which asserts hasEntry) and copyOrLink to objectFile
HitCopy(p) ==
    LET j == jb[p]
        relAll == ReleasedAll(Released(locks, p, ObjLock(ObjectShard(j.key))), p,
                              JobSectionLocks(j))
    IN  /\ pc[p] = "hit_copy"
        /\ locks' = relAll
        /\ IF objects[j.key].present
           THEN /\ objOrder' = Touched(objOrder, j.key)
                /\ Finish(p, "hit", 0, objects[j.key].obj, FALSE)
           ELSE /\ UNCHANGED objOrder
                /\ Finish(p, "error", 1, <<0, 0>>, FALSE)
        /\ UNCHANGED <<aside, conc, hdr, cfgMax, stats, manifests, manOrder, manDirs, objects,
                       objDirs, st, runsLeft, editsLeft, maintLeft>>

\* invokeRealCompiler(compiler, cmdLine, captureOutput=True): no lock is held
InvokeRealCompiler(p, nextPc) ==
    LET c == IncludedContent(hdr)
    IN  /\ jb' = [jb EXCEPT ![p].ok = (c # 0), ![p].compiled = TRUE,
                            ![p].objc = IF c # 0 THEN <<jb[p].src, c>> ELSE <<0, 0>>]
        /\ pc' = [pc EXCEPT ![p] = nextPc]
        /\ UNCHANGED <<aside, conc, hdr, cfgMax, stats, manifests, manOrder, manDirs, objects,
                       objOrder, objDirs, locks, gl, st, res, runsLeft, editsLeft,
                       maintLeft, gh>>

PdCompile(p) ==
    /\ pc[p] = "pd_compile"
    /\ InvokeRealCompiler(p, "pd_lockman2")

\* processDirect after the compile: with cache.manifestLockFor(manifestHash):
\* createManifestEntry unless the manifest had a matching entry
PdLockManifest2(p) ==
    LET j == jb[p]
        l == ManLock(ManifestShard(j.src))
        entry == CreateManifestEntry(j.src, hdr)
    IN  /\ pc[p] = "pd_lockman2"
        /\ CanAcquire(locks, p, l)
        /\ locks' = Acquired(locks, p, l)
        /\ jb' = IF j.mhit THEN jb
                 ELSE [jb EXCEPT ![p].entry = entry, ![p].key = entry.key]
        /\ pc' = [pc EXCEPT ![p] = "ea_lockobj"]
        /\ UNCHANGED <<aside, conc, hdr, cfgMax, stats, manifests, manOrder, manDirs, objects,
                       objOrder, objDirs, gl, st, res, runsLeft, editsLeft, maintLeft, gh>>

\* a cache that never finds the entry it is about to store
CacheNeverHasEntry(objs, k) == FALSE

\* Cache.hasEntry(cachekey): os.path.exists(cacheEntryDir(key))
CacheHasEntry(objs, k) == objs[k].present

\* ensureArtifactsExist: with cache.lockFor(cachekey): if not cache.hasEntry(cachekey)
EaLockObject(p) ==
    LET j == jb[p]
        l == ObjLock(ObjectShard(j.key))
    IN  /\ pc[p] = "ea_lockobj"
        /\ CanAcquire(locks, p, l)
        /\ IF CacheHasEntry(objects, j.key)
           THEN \* nothing is recorded and nothing is stored
                /\ locks' = ReleasedAll(Acquired(locks, p, l), p, JobSectionLocks(j))
                /\ Finish(p, "skip", ReturnCode(j.ok, j.src), j.objc, FALSE)
           ELSE /\ locks' = Acquired(locks, p, l)
                /\ pc' = [pc EXCEPT ![p] = "ea_stats"]
                /\ UNCHANGED <<jb, gl, res, gh>>
        /\ UNCHANGED <<aside, conc, hdr, cfgMax, stats, manifests, manOrder, manDirs, objects,
                       objOrder, objDirs, st, runsLeft, editsLeft, maintLeft>>

\* ensureArtifactsExist: with cache.statistics.lock, cache.statistics as stats
EaStats(p) ==
    /\ pc[p] = "ea_stats"
    /\ CanAcquire(locks, p, StatsLock)
    /\ locks' = Acquired(locks, p, StatsLock)
    /\ st' = [st EXCEPT ![p] = stats]
    /\ pc' = [pc EXCEPT ![p] = "ea_save"]
    /\ UNCHANGED <<aside, conc, hdr, cfgMax, stats, manifests, manOrder, manDirs, objects,
                   objOrder, objDirs, jb, gl, res, runsLeft, editsLeft, maintLeft, gh>>

\* CompilerArtifactsSection.setEntry: the entry directory appears, complete
ObjectsAfterSet(objs, k, size, obj) ==
    [objs EXCEPT ![k] = [present |-> TRUE, size |-> size, obj |-> obj]]

\* addObjectToCache: stats.currentCacheSize() >= cfg.maximumCacheSize()
CleanupRequired(s, maximumSize) == s.size >= maximumSize

\* a cache that stores whatever the compiler left
AnyCompilation(j) == TRUE

\* correctCompiliation = (returnCode == 0 and os.path.exists(objectFile))
CorrectCompiliation(j) == ReturnCode(j.ok, j.src) = 0 /\ j.objc # <<0, 0>>

\* reason(stats); if correctCompiliation: addObjectToCache(..); the document is saved
EaSave(p) ==
    LET j == jb[p]
        s1 == RegisterReason(st[p], j.reason)
        s2 == IF CorrectCompiliation(j) THEN RegisterCacheEntry(s1, ObjSizeOf(j.src)) ELSE s1
    IN  /\ pc[p] = "ea_save"
        /\ stats' = s2
        /\ IF CorrectCompiliation(j)
           THEN /\ objects' = ObjectsAfterSet(objects, j.key, ObjSizeOf(j.src), j.objc)
                /\ objOrder' = Touched(objOrder, j.key)
                /\ objDirs' = objDirs \cup {ObjectShard(j.key)}
                /\ jb' = [jb EXCEPT ![p].cleanup = CleanupRequired(s2, cfgMax)]
           ELSE UNCHANGED <<objects, objOrder, objDirs, jb>>
        /\ locks' = Released(locks, p, StatsLock)
        /\ gh' = [gh EXCEPT !.missRegs = @ + 1,
                            !.plain = IF j.reason = "plain" THEN @ + 1 ELSE @]
        /\ pc' = [pc EXCEPT ![p] = "ea_extra"]
        /\ UNCHANGED <<aside, conc, hdr, cfgMax, manifests, manOrder, manDirs, gl, st, res,
                       runsLeft, editsLeft, maintLeft>>

\* a miss that forgets to persist the manifest
AddManifestForgotten(mans, m, entry) == mans

\* processDirect.addManifest: getManifest(..) or Manifest(); addEntry; setManifest
AddManifest(mans, m, entry) ==
    ManifestsAfterSet(mans, m, AddEntry(IF Readable(mans[m]) THEN mans[m].entries ELSE <<>>,
                                        entry))

\* a job that passes addManifest whether or not a manifest entry had matched
AlwaysExtraCallable(j) == j.direct

\* processDirect passes addManifest to ensureArtifactsExist when manifestHit is None
HasExtraCallable(j) == j.direct /\ ~j.mhit

\* a writer that adds its entry to the manifest as it read it before the compile
ManifestsAsProbed(p) ==
    [manifests EXCEPT ![jb[p].src] = [exists |-> jb[p].lman # <<>>, entries |-> jb[p].lman,
                                      broken |-> FALSE]]

\* addManifest: cache.getManifest(manifestHash) reads the manifest again, under the
\* manifest lock taken after the compile
ManifestsReadAgain(p) == manifests

\* if extraCallable and correctCompiliation: extraCallable(); the locks are left
EaExtra(p) ==
    LET j == jb[p]
    IN  /\ pc[p] = "ea_extra"
        /\ IF HasExtraCallable(j) /\ CorrectCompiliation(j)
           THEN /\ manifests' = AddManifest(ManifestsReadAgain(p), j.src, j.entry)
                /\ manOrder' = Touched(manOrder, j.src)
                /\ manDirs' = manDirs \cup {ManifestShard(j.src)}
           ELSE UNCHANGED <<manifests, manOrder, manDirs>>
        /\ locks' = ReleasedAll(locks, p, JobSectionLocks(j))
        /\ Finish(p, "miss", ReturnCode(j.ok, j.src), j.objc, j.cleanup)
        /\ UNCHANGED <<aside, conc, hdr, cfgMax, stats, objects, objOrder, objDirs, st,
                       runsLeft, editsLeft, maintLeft>>

\* a job that goes on to the cache lookup whatever the preprocessor returned
PnIgnoresFailure(p) ==
    /\ pc[p] = "pn_preprocess"
    /\ jb' = [jb EXCEPT ![p].key = KeyNodirect(jb[p].src, IncludedContent(hdr)),
                        ![p].reason = "plain"]
    /\ pc' = [pc EXCEPT ![p] = "pn_lockobj"]
    /\ UNCHANGED <<aside, conc, hdr, cfgMax, stats, manifests, manOrder, manDirs, objects,
                   objOrder, objDirs, locks, st, runsLeft, editsLeft, maintLeft, gl, res, gh>>

\* computeKeyNodirect: the preprocessor run; CompilerFailedException when it fails
PnPreprocess(p) ==
    LET c == IncludedContent(hdr)
    IN  /\ pc[p] = "pn_preprocess"
        /\ IF c = 0
           THEN /\ Finish(p, "ppfail", ReturnCode(FALSE, jb[p].src), <<0, 0>>, FALSE)
           ELSE /\ jb' = [jb EXCEPT ![p].key = KeyNodirect(jb[p].src, c),
                                    ![p].reason = "plain"]
                /\ pc' = [pc EXCEPT ![p] = "pn_lockobj"]
                /\ UNCHANGED <<gl, res, gh>>
        /\ UNCHANGED <<aside, conc, hdr, cfgMax, stats, manifests, manOrder, manDirs, objects,
                       objOrder, objDirs, locks, st, runsLeft, editsLeft, maintLeft>>

PnLockObject(p) ==
    /\ pc[p] = "pn_lockobj"
    /\ LockAndProbeObject(p, "pn_compile")

PnCompile(p) ==
    /\ pc[p] = "pn_compile"
    /\ InvokeRealCompiler(p, "ea_lockobj")

\* ------------------------------------------------------------- the global cache lock
RECURSIVE SeqOfLocks(_, _)
SeqOfLocks(shards, kind) ==
    IF shards = <<>> THEN <<>>
    ELSE <<<<kind, Head(shards)>>>> \o SeqOfLocks(Tail(shards), kind)

\* a global lock that starts with statistics.lock
StatsLockFirst(dirs, kind) == <<StatsLock>> \o SeqOfLocks(SortedSeq(dirs), kind)

\* ManifestRepository.sections / CompilerArtifactsRepository.sections: the section
\* directories that exist now (childDirectories)
SectionLocks(dirs, kind) == SeqOfLocks(SortedSeq(dirs), kind)

\* allSectionsLocked(manifestRepository): sections = list(repository.sections())
GlStart(p) ==
    /\ pc[p] = "gl_start"
    /\ gl' = [gl EXCEPT ![p].todo = SectionLocks(manDirs, "man")]
    /\ pc' = [pc EXCEPT ![p] = "gl_man"]
    /\ UNCHANGED <<aside, conc, hdr, cfgMax, stats, manifests, manOrder, manDirs, objects,
                   objOrder, objDirs, locks, jb, st, res, runsLeft, editsLeft, maintLeft, gh>>

\* for section in sections: section.lock.acquire(); after the last one the object
\* sections are listed
GlLockManifests(p) ==
    /\ pc[p] = "gl_man"
    /\ IF gl[p].todo # <<>>
       THEN /\ CanAcquire(locks, p, Head(gl[p].todo))
            /\ locks' = Acquired(locks, p, Head(gl[p].todo))
            /\ gl' = [gl EXCEPT ![p].todo = Tail(@), ![p].held = Append(@, Head(gl[p].todo))]
            /\ UNCHANGED pc
       ELSE /\ gl' = [gl EXCEPT ![p].todo = SectionLocks(objDirs, "obj")]
            /\ pc' = [pc EXCEPT ![p] = "gl_obj"]
            /\ UNCHANGED locks
    /\ UNCHANGED <<aside, conc, hdr, cfgMax, stats, manifests, manOrder, manDirs, objects,
                   objOrder, objDirs, jb, st, res, runsLeft, editsLeft, maintLeft, gh>>

\* allSectionsLocked(compilerArtifactsRepository)
GlLockObjects(p) ==
    /\ pc[p] = "gl_obj"
    /\ IF gl[p].todo # <<>>
       THEN /\ CanAcquire(locks, p, Head(gl[p].todo))
            /\ locks' = Acquired(locks, p, Head(gl[p].todo))
            /\ gl' = [gl EXCEPT ![p].todo = Tail(@), ![p].held = Append(@, Head(gl[p].todo))]
            /\ UNCHANGED pc
       ELSE /\ pc' = [pc EXCEPT ![p] = "gl_stats"]
            /\ UNCHANGED <<locks, gl>>
    /\ UNCHANGED <<aside, conc, hdr, cfgMax, stats, manifests, manOrder, manDirs, objects,
                   objOrder, objDirs, jb, st, res, runsLeft, editsLeft, maintLeft, gh>>

\* CacheFileStrategy.lock: self.statistics.lock last; then cache.statistics is loaded
GlStats(p) ==
    /\ pc[p] = "gl_stats"
    /\ CanAcquire(locks, p, StatsLock)
    /\ locks' = Acquired(locks, p, StatsLock)
    /\ st' = [st EXCEPT ![p] = stats]
    /\ pc' = [pc EXCEPT ![p] = "gl_body"]
    /\ UNCHANGED <<aside, conc, hdr, cfgMax, stats, manifests, manOrder, manDirs, objects,
                   objOrder, objDirs, jb, gl, res, runsLeft, editsLeft, maintLeft, gh>>

\* an eviction that counts the object files only
ObjectsSizeOnly(objectsSize, manifestsSize) == objectsSize

\* stats.setCacheSize(currentCompilerArtifactsSize + currentSizeManifests)
ReconciledSize(objectsSize, manifestsSize) == objectsSize + manifestsSize

\* CacheFileStrategy.clean(stats, maximumSize), and the save of the statistics
CacheClean(p, maximumSize) ==
    IF st[p].size < maximumSize
    THEN UNCHANGED <<stats, manifests, manOrder, objects, objOrder, gh>>
    ELSE LET mres == ManifestRepositoryClean(manifests, manOrder, maximumSize)
             ores == CompilerArtifactsRepositoryClean(objects, objOrder, maximumSize)
         IN  /\ manifests' = [m \in Srcs |-> IF m \in mres.keep THEN manifests[m]
                                             ELSE NoManifest]
             /\ manOrder' = SelectSeq(manOrder, LAMBDA m : m \in mres.keep)
             /\ objects' = [k \in Keys |-> IF k \in Range(ores.order) THEN objects[k]
                                           ELSE NoObject]
             /\ objOrder' = ores.order
             /\ stats' = [st[p] EXCEPT !.size = ReconciledSize(ores.size, mres.size),
                                       !.entries = ores.count]
             /\ gh' = [gh EXCEPT !.evictions = @ + 1]

\* a clear that evicts down to the configured maximum only
ClearToConfigured(p) == CacheClean(p, cfgMax)

\* clearCache: cache.clean(stats, 0)
ClearCache(p) == CacheClean(p, 0)

\* the body of cleanCache, clearCache or --set-size under the global lock; leaving
\* the with statement releases the statistics lock and every section lock taken
GlBody(p) ==
    /\ pc[p] = "gl_body"
    /\ CASE gl[p].cmd = "clean" -> CacheClean(p, cfgMax) /\ UNCHANGED cfgMax
         [] gl[p].cmd = "clear" -> ClearCache(p) /\ UNCHANGED cfgMax
         [] OTHER -> /\ cfgMax' = gl[p].arg
                     /\ UNCHANGED <<stats, manifests, manOrder, objects, objOrder, gh>>
    /\ locks' = ReleasedAll(Released(locks, p, StatsLock), p, gl[p].held)
    /\ gl' = [gl EXCEPT ![p] = InitGl]
    /\ pc' = [pc EXCEPT ![p] = "idle"]
    /\ UNCHANGED <<aside, conc, hdr, manDirs, objDirs, jb, st, res, runsLeft, editsLeft,
                   maintLeft>>

\* clcache -c, -C or -M <size> (main)
MaintStart(cmd, arg) ==
    /\ pc["mt"] = "idle"
    /\ maintLeft > 0
    /\ conc \/ OthersIdle("mt")
    /\ maintLeft' = maintLeft - 1
    /\ gl' = [gl EXCEPT !["mt"] = [InitGl EXCEPT !.cmd = cmd, !.arg = arg]]
    /\ pc' = [pc EXCEPT !["mt"] = "gl_start"]
    /\ gh' = [gh EXCEPT !.alt = -1, !.quiet = FALSE]
    /\ UNCHANGED <<aside, conc, hdr, cfgMax, stats, manifests, manOrder, manDirs, objects,
                   objOrder, objDirs, locks, jb, st, res, runsLeft, editsLeft>>

\* a header file is written or deleted while no compile runs
EditHeader(f, c) ==
    /\ AllIdle
    /\ editsLeft > 0
    /\ hdr[f] # c
    /\ hdr' = [hdr EXCEPT ![f] = c]
    /\ editsLeft' = editsLeft - 1
    /\ gh' = [gh EXCEPT !.alt = AltAfterEdit(gh, f, c), !.quiet = FALSE]
    /\ UNCHANGED <<aside, conc, cfgMax, stats, manifests, manOrder, manDirs, objects, objOrder,
                   objDirs, locks, pc, jb, gl, st, res, runsLeft, maintLeft>>

\* ------------------------------------------------------------- specifications
\* the first header has content c, the second is absent
HeaderOne(c) == [f \in Files |-> IF f = 1 THEN c ELSE 0]

\* what a direct-mode miss of source m stores when header 1 has content c
StatsAfterMiss(s, m) == RegisterCacheEntry(RegisterSourceChangedMiss(s), ObjSizeOf(m))
ManifestsAfterMiss(mans, m, c) == AddManifest(mans, m, CreateManifestEntry(m, HeaderOne(c)))
ObjectsAfterMiss(objs, m, c) == ObjectsAfterSet(objs, KeyDirect(m, c), ObjSizeOf(m), <<m, c>>)

\* the cache after sources 1 and 2 were compiled in direct mode, one after the other,
\* while header 1 had content c: two misses, two manifests, two objects
WarmCache(c) ==
    /\ hdr = HeaderOne(c)
    /\ cfgMax = DefaultMaximumCacheSize
    /\ stats = StatsAfterMiss(StatsAfterMiss(ZeroStats, 1), 2)
    /\ manifests = ManifestsAfterMiss(ManifestsAfterMiss([m \in Srcs |-> NoManifest], 1, c),
                                      2, c)
    /\ manOrder = <<1, 2>>
    /\ manDirs = {ManifestShard(1), ManifestShard(2)}
    /\ objects = ObjectsAfterMiss(ObjectsAfterMiss([k \in Keys |-> NoObject], 1, c), 2, c)
    /\ objOrder = <<KeyDirect(1, c), KeyDirect(2, c)>>
    /\ objDirs = {ObjectShard(KeyDirect(1, c)), ObjectShard(KeyDirect(2, c))}
    /\ gh = [InitGh EXCEPT !.jobs = 2, !.missRegs = 2, !.alt = -1,
                           !.first = [outcome |-> "miss", src |-> 1, direct |-> TRUE,
                                      rc |-> 0, out |-> <<1, c>>, compiled |-> TRUE,
                                      key |-> KeyDirect(1, c), inc |-> 1, reason |-> "src"]]

\* two processes compiling at once and a maintenance command beside them, on an
\* empty cache or on a warm one
Init ==
    /\ \/ InitCache /\ hdr[2] = 0
       \/ IdleProcesses /\ \E c \in Contents : WarmCache(c)
    /\ AsideIdle
    /\ conc = TRUE
    /\ runsLeft = [p \in Jobs |-> MaxRunsConc]
    /\ editsLeft = 0
    /\ maintLeft = MaxMaint

JobStep ==
    \/ \E p \in Jobs, m \in Srcs, d \in BOOLEAN : StartJob(p, m, d)
    \/ \E p \in Jobs : PdLockManifest(p)
    \/ \E p \in Jobs : PdProbe(p)
    \/ \E p \in Jobs : PdLockObject(p)
    \/ \E p \in Jobs : HitStats(p)
    \/ \E p \in Jobs : HitSave(p)
    \/ \E p \in Jobs : HitCopy(p)
    \/ \E p \in Jobs : PdCompile(p)
    \/ \E p \in Jobs : PdLockManifest2(p)
    \/ \E p \in Jobs : EaLockObject(p)
    \/ \E p \in Jobs : EaStats(p)
    \/ \E p \in Jobs : EaSave(p)
    \/ \E p \in Jobs : EaExtra(p)
    \/ \E p \in Jobs : PnPreprocess(p)
    \/ \E p \in Jobs : PnLockObject(p)
    \/ \E p \in Jobs : PnCompile(p)
    \/ \E p \in AllProcs : GlStart(p)
    \/ \E p \in AllProcs : GlLockManifests(p)
    \/ \E p \in AllProcs : GlLockObjects(p)
    \/ \E p \in AllProcs : GlStats(p)
    \/ \E p \in AllProcs : GlBody(p)

\* two compiling processes and clcache -c or -C beside them
Next ==
    \/ JobStep
    \/ \E cmd \in {"clean", "clear"} : MaintStart(cmd, 0)

\* the same steps one process at a time, with -M <size> and header edits between them
NextSeq ==
    \/ JobStep
    \/ \E cmd \in {"clean", "clear"} : MaintStart(cmd, 0)
    \/ \E n \in SizeChoices : MaintStart("setsize", n)
    \/ \E f \in Files, c \in Contents0 : EditHeader(f, c)

\* concurrent compile jobs and a maintenance command on one cache directory
Spec == Init /\ [][Next]_vars

\* compile jobs, header edits and maintenance commands one after the other
SpecSeq == InitSeq /\ [][NextSeq]_vars

\* ------------------------------------------------------------- setEntry in detail
\* the pipeline is not running
PipelineIdle ==
    /\ InitCache
    /\ hdr = [f \in Files |-> 0]
    /\ conc = FALSE
    /\ runsLeft = [p \in Jobs |-> 0]
    /\ editsLeft = 0
    /\ maintLeft = 0

InitPublish ==
    /\ PipelineIdle
    /\ ExtrasIdle
    /\ entryDirs = [d \in SeDirs |-> NoDir]
    /\ sePc = "idle"
    /\ seJob = NoSeJob
    /\ published = {}
    /\ setsLeft = MaxSets
    /\ crashesLeft = MaxCrashes
    /\ mfEntries = <<>>
    /\ mfOpsLeft = 0

\* CompilerArtifactsSection.hasEntry: os.path.exists(self.cacheEntryDir(key))
HasEntry(k) == entryDirs[CacheEntryDir(k)].exists

\* the next state of a file that is being written: created, then all bytes there
Written(f) == IF f = "absent" THEN "partial" ELSE "complete"

\* ensureArtifactsExist calls setEntry under the section lock when not hasEntry(key)
SeStart(k, err) ==
    /\ sePc = "idle"
    /\ setsLeft > 0
    /\ ~HasEntry(k)
    /\ seJob' = [key |-> k, stderr |-> err]
    /\ sePc' = "rmtree"
    /\ setsLeft' = setsLeft - 1
    /\ UNCHANGED <<pipeline, extras, entryDirs, published, crashesLeft, mfEntries, mfOpsLeft>>

\* rmtree(tempEntryDir, ignore_errors=True)
SeRmtree ==
    /\ sePc = "rmtree"
    /\ entryDirs' = [entryDirs EXCEPT ![TempEntryDir(seJob.key)] = NoDir]
    /\ sePc' = "mkdir"
    /\ UNCHANGED <<pipeline, extras, seJob, published, setsLeft, crashesLeft, mfEntries, mfOpsLeft>>

\* ensureDirectoryExists(tempEntryDir)
SeMkdir ==
    /\ sePc = "mkdir"
    /\ entryDirs' = [entryDirs EXCEPT ![TempEntryDir(seJob.key)] =
                        [NoDir EXCEPT !.exists = TRUE, !.wantErr = seJob.stderr]]
    /\ sePc' = "object"
    /\ UNCHANGED <<pipeline, extras, seJob, published, setsLeft, crashesLeft, mfEntries, mfOpsLeft>>

\* copyOrLink(artifacts.objectFilePath, dstFilePath, True)
SeCopyObject ==
    LET d == TempEntryDir(seJob.key)
    IN  /\ sePc = "object"
        /\ entryDirs' = [entryDirs EXCEPT ![d].object = Written(@)]
        /\ sePc' = IF entryDirs[d].object = "absent" THEN "object" ELSE "output"
        /\ UNCHANGED <<pipeline, extras, seJob, published, setsLeft, crashesLeft, mfEntries,
                       mfOpsLeft>>

\* setCachedCompilerConsoleOutput(.. STDOUT_FILE, artifacts.stdout)
SeWriteOutput ==
    LET d == TempEntryDir(seJob.key)
    IN  /\ sePc = "output"
        /\ entryDirs' = [entryDirs EXCEPT ![d].output = Written(@)]
        /\ sePc' = IF entryDirs[d].output = "absent" THEN "output"
                   ELSE IF seJob.stderr THEN "stderr" ELSE "replace"
        /\ UNCHANGED <<pipeline, extras, seJob, published, setsLeft, crashesLeft, mfEntries,
                       mfOpsLeft>>

\* if artifacts.stderr != '': setCachedCompilerConsoleOutput(.. STDERR_FILE, ..)
SeWriteStderr ==
    LET d == TempEntryDir(seJob.key)
    IN  /\ sePc = "stderr"
        /\ entryDirs' = [entryDirs EXCEPT ![d].stderr = Written(@)]
        /\ sePc' = IF entryDirs[d].stderr = "absent" THEN "stderr" ELSE "replace"
        /\ UNCHANGED <<pipeline, extras, seJob, published, setsLeft, crashesLeft, mfEntries,
                       mfOpsLeft>>

\* os.replace(tempEntryDir, cacheEntryDir); setEntry returns
SeReplace ==
    LET k == seJob.key
    IN  /\ sePc = "replace"
        /\ entryDirs' = [d \in SeDirs |->
                            IF d = CacheEntryDir(k) THEN entryDirs[TempEntryDir(k)]
                            ELSE IF d = TempEntryDir(k) THEN NoDir
                            ELSE entryDirs[d]]
        /\ published' = published \cup {k}
        /\ sePc' = "idle"
        /\ seJob' = NoSeJob
        /\ UNCHANGED <<pipeline, extras, setsLeft, crashesLeft, mfEntries, mfOpsLeft>>

\* the process dies inside setEntry; its mutex is abandoned and the files stay
SeCrash ==
    /\ sePc # "idle"
    /\ crashesLeft > 0
    /\ crashesLeft' = crashesLeft - 1
    /\ sePc' = "idle"
    /\ seJob' = NoSeJob
    /\ UNCHANGED <<pipeline, extras, entryDirs, published, setsLeft, mfEntries, mfOpsLeft>>

\* CompilerArtifactsRepository.removeEntry under the section lock: rmtree of the entry
SeRemoveEntry(k) ==
    /\ sePc = "idle"
    /\ HasEntry(k)
    /\ entryDirs' = [entryDirs EXCEPT ![CacheEntryDir(k)] = NoDir]
    /\ published' = published \ {k}
    /\ UNCHANGED <<pipeline, extras, sePc, seJob, setsLeft, crashesLeft, mfEntries, mfOpsLeft>>

NextPublish ==
    \/ \E k \in SeKeys, err \in BOOLEAN : SeStart(k, err)
    \/ SeRmtree
    \/ SeMkdir
    \/ SeCopyObject
    \/ SeWriteOutput
    \/ SeWriteStderr
    \/ SeReplace
    \/ SeCrash
    \/ \E k \in SeKeys : SeRemoveEntry(k)

\* setEntry step by step on the keys of one section, with process deaths
SpecPublish == InitPublish /\ [][NextPublish]_vars

\* ------------------------------------------------------------- C2
\* the object file, output.txt and, when stderr was not empty, stderr.txt are there
CompleteArtifacts(d) ==
    /\ d.object = "complete"
    /\ d.output = "complete"
    /\ d.wantErr => d.stderr = "complete"

Pristine == editsLeft = MaxEdits /\ maintLeft = MaxMaint

\* the second job repeats the first, a direct-mode job that exited 0 with an object
SecondRepeatsFirst ==
    /\ Pristine
    /\ pc["p1"] = "idle"
    /\ gh.jobs = 2
    /\ gh.first.direct /\ gh.first.rc = 0 /\ gh.first.out # <<0, 0>>
    /\ res["p1"].direct /\ res["p1"].src = gh.first.src

\* C1: from an empty cache a first direct-mode job that exits 0 with an object
\* leaves hits, misses, entries = 0, 1, 1; a second job with the same source and
\* header contents is a hit without a compiler run, leaves 1, 1, 1 and delivers the
\* object the first job stored
C1_ColdToWarmHit ==
    /\ (Pristine /\ pc["p1"] = "idle" /\ gh.jobs = 1 /\ res["p1"].direct
          /\ res["p1"].rc = 0 /\ res["p1"].out # <<0, 0>>)
       => (stats.hits = 0 /\ stats.misses = 1 /\ stats.entries = 1)
    /\ SecondRepeatsFirst
       => /\ res["p1"].outcome = "hit"
          /\ ~res["p1"].compiled
          /\ stats.hits = 1 /\ stats.misses = 1 /\ stats.entries = 1
          /\ res["p1"].out = gh.first.out

C1_Witness == SecondRepeatsFirst /\ res["p1"].outcome = "hit" /\ stats.hits = 1

\* ------------------------------------------------------------- C3
\* only compile jobs ran, and none failed in the preprocessor
OnlyCompileJobs == maintLeft = MaxMaint /\ gh.ppfails = 0

\* C3: once all jobs of a concurrent set have completed, CacheHits + CacheMisses
\* has grown by exactly the number of jobs
C3_EveryJobCountedOnce ==
    (AllIdle /\ OnlyCompileJobs) => stats.hits + stats.misses = gh.jobs

\* ------------------------------------------------------------- C4
\* the positions between the load and the save of the statistics document
InStatsUpdate(p) == pc[p] \in {"hit_save", "ea_save", "gl_body"}

\* every read-modify-write of stats.txt is made by the holder of statistics.lock,
\* and when the lock is free the document holds every registration made so far
StatsUnderLock ==
    /\ \A p \in AllProcs : InStatsUpdate(p) => locks[StatsLock].owner = p
    /\ locks[StatsLock].owner = NoProc
       => (stats.hits = gh.hitRegs /\ stats.misses = gh.missRegs)

\* a job records its hit: one more hit, misses and entries as they were on disk
HitRecorded(p) ==
    (pc[p] = "hit_save" /\ pc'[p] = "hit_copy")
    => /\ stats'.hits = stats.hits + 1
       /\ stats'.misses = stats.misses
       /\ stats'.entries = stats.entries

\* C4: statistics are read, modified and written under statistics.lock only, so no
\* registration is lost: each of the jobs that hit concurrently adds exactly one to
\* CacheHits and leaves CacheMisses and CacheEntries unchanged, in every interleaving
C4_NoLostStatisticsUpdates ==
    /\ []StatsUnderLock
    /\ [][\A p \in Jobs : HitRecorded(p)]_vars

\* both jobs are in processCacheHit on different cached sources: one has loaded the
\* document, the other waits for statistics.lock
C4_Witness ==
    /\ pc["p1"] = "hit_save"
    /\ pc["p2"] = "hit_stats"
    /\ jb["p1"].src # jb["p2"].src
    /\ maintLeft = MaxMaint

\* ------------------------------------------------------------- C5
\* p is inside the body of cleanCache, clearCache or set-size: it holds the global lock
GlobalLockHeld(p) == pc[p] = "gl_body"

\* C5: while a process holds the global cache lock no other process holds a manifest
\* section lock, an object section lock or the statistics lock, whether or not the
\* section's directory existed when the holder listed the sections
C5_GlobalLockExclusion ==
    \A p \in AllProcs :
        GlobalLockHeld(p) => \A l \in Locks : locks[l].owner \in {NoProc, p}

\* ------------------------------------------------------------- C6
RECURSIVE SumManifestSizes(_, _)
SumManifestSizes(mans, order) ==
    IF order = <<>> THEN 0
    ELSE ManifestSize(mans[Head(order)].entries) + SumManifestSizes(mans, Tail(order))

\* cleanCache returns to its caller in this step
CleanCacheReturns(p) == pc[p] = "gl_body" /\ gl[p].cmd = "clean" /\ pc'[p] = "idle"

\* C6: when cleanCache returns the CacheSize gauge is at most MaximumCacheSize, and
\* when the eviction ran (the gauge had reached the maximum) it equals the size of
\* the surviving object files plus the size of the surviving manifest files
C6_SizeBound ==
    [][\A p \in AllProcs :
          CleanCacheReturns(p)
          => /\ stats'.size <= cfgMax
             /\ st[p].size >= cfgMax
                => stats'.size = SumObjectSizes(objects', objOrder')
                                 + SumManifestSizes(manifests', manOrder')]_vars

\* an eviction ran after the second job and left one object and one manifest
C6_Witness ==
    /\ AllIdle
    /\ gh.evictions = 1
    /\ gh.jobs = 2
    /\ Len(objOrder) = 1
    /\ Len(manOrder) = 1
    /\ stats.size = ObjSizeOf(objOrder[1][2]) + ManifestSize(manifests[manOrder[1]].entries)
    /\ stats.size <= cfgMax

\* ------------------------------------------------------------- C7
\* process p is about to run the eviction that its insertion of Y triggered: the
\* store holds X and then Y, of equal sizes
EvictionAfterInsertingY(p) ==
    /\ pc[p] = "gl_body" /\ gl[p].cmd = "clean" /\ pc'[p] = "idle"
    /\ st[p].size >= cfgMax
    /\ res[p].outcome = "miss" /\ res[p].rc = 0
    /\ Len(objOrder) = 2
    /\ objOrder[2] = res[p].key
    /\ objects[objOrder[1]].size = objects[objOrder[2]].size

\* X is gone, Y is there, one entry is counted
OnlyNewestSurvives ==
    /\ ~objects'[objOrder[1]].present
    /\ objects'[objOrder[2]].present
    /\ stats'.entries = 1

\* the maximum is at most a tenth above the size
SlightlyAbove(maximumSize, size) == size < maximumSize /\ 10 * maximumSize <= 11 * size

\* C7 as claimed: with MaximumCacheSize slightly above the size of one object, the
\* eviction that follows the insertion of X and then Y (equal sizes) leaves X
\* absent, Y present and CacheEntries = 1
C7_NewestSurvivesSlightlyAbove ==
    [][\A p \in Jobs :
          (EvictionAfterInsertingY(p) /\ SlightlyAbove(cfgMax, objects[objOrder[2]].size))
          => OnlyNewestSurvives]_vars

\* C7 amended: the same when one object is smaller than the object limit, 81 percent
\* of MaximumCacheSize
C7_NewestSurvivesUnderObjectLimit ==
    [][\A p \in Jobs :
          (EvictionAfterInsertingY(p) /\ LtLimit(objects[objOrder[2]].size, 81, cfgMax))
          => OnlyNewestSurvives]_vars

\* two misses on one source stored X and then Y, the eviction after Y ran, and Y alone
\* is left
C7_Witness ==
    /\ AllIdle
    /\ gh.jobs = 2 /\ gh.evictions = 1
    /\ gh.first.outcome = "miss" /\ gh.first.rc = 0
    /\ res["p1"].outcome = "miss" /\ res["p1"].rc = 0
    /\ gh.first.src = res["p1"].src
    /\ gh.first.key # res["p1"].key
    /\ LtLimit(ObjSizeOf(res["p1"].src), 81, cfgMax)
    /\ objOrder = <<res["p1"].key>>
    /\ ~objects[gh.first.key].present
    /\ stats.entries = 1

\* ------------------------------------------------------------- C8
\* list s without its i-th element
RemoveAt(s, i) == SubSeq(s, 1, i - 1) \o SubSeq(s, i + 1, Len(s))

\* C8: when the lookup of a direct-mode job matches the manifest entry at position i,
\* the persisted manifest has that entry at position 0 and the other entries in
\* their former order, none lost and none duplicated
C8_ManifestMRU ==
    [][\A p \in Jobs :
          LET j == jb[p]
              i == NextMatch(j.lman, j.idx, hdr)
              after == manifests'[j.src].entries
          IN  (pc[p] = "pd_probe" /\ i > 0 /\ pc'[p] = "pd_lockobj")
              => /\ manifests'[j.src].exists
                 /\ after = <<j.lman[i]>> \o RemoveAt(j.lman, i)]_vars

\* ------------------------------------------------------------- C9
UniqueObjectHashes(es) == \A a, b \in 1..Len(es) : a # b => es[a].key # es[b].key

\* C9: in every state no stored manifest has two entries with the same objectHash
C9_UniqueObjectHashes ==
    \A m \in Srcs : manifests[m].exists => UniqueObjectHashes(manifests[m].entries)

\* ------------------------------------------------------------- one Manifest object
\* the entry a compile stores when the header has its i-th content
MfEntry(i) == [inc |-> 1, hash |-> i, key |-> KeyDirect(1, i)]

\* the manifest after n compiles of one source with n different header contents
DistinctEntries(n) == [i \in 1..n |-> MfEntry(n - i + 1)]

InitManifest ==
    /\ PipelineIdle
    /\ ExtrasIdle
    /\ entryDirs = [d \in SeDirs |-> NoDir]
    /\ sePc = "idle"
    /\ seJob = NoSeJob
    /\ published = {}
    /\ setsLeft = 0
    /\ crashesLeft = 0
    /\ mfEntries \in {DistinctEntries(n) : n \in 0..MaxManifestLen}
    /\ mfOpsLeft = MaxManifestOps

\* manifest.addEntry(entry) with an entry whose objectHash is not in the manifest
MfAddEntry ==
    /\ mfOpsLeft > 0
    /\ mfEntries' = AddEntry(mfEntries, MfEntry(Len(mfEntries) + 1))
    /\ mfOpsLeft' = mfOpsLeft - 1
    /\ UNCHANGED <<pipeline, extras, entryDirs, sePc, seJob, published, setsLeft, crashesLeft>>

\* manifest.touchEntry(objectHash) for the entry at position i
MfTouchEntry(i) ==
    /\ mfOpsLeft > 0
    /\ i \in 1..Len(mfEntries)
    /\ mfEntries' = TouchEntry(mfEntries, mfEntries[i].key)
    /\ mfOpsLeft' = mfOpsLeft - 1
    /\ UNCHANGED <<pipeline, extras, entryDirs, sePc, seJob, published, setsLeft, crashesLeft>>

NextManifest ==
    \/ MfAddEntry
    \/ \E i \in {2, 3, MaxManifestLen} : MfTouchEntry(i)

\* the methods of Manifest applied to manifests of every length up to the cap
SpecManifest == InitManifest /\ [][NextManifest]_vars

\* ------------------------------------------------------------- C10
\* C10: no manifest ever holds more than 100 entries: adding a new entry to a full
\* manifest drops the last one
C10_ManifestCap == Len(mfEntries) <= MAX_MANIFEST_HASHES

\* ------------------------------------------------------------- jobs and header edits
\* a cache directory before the first compile: empty, or holding for source 2 a
\* manifest file that is not JSON; MaximumCacheSize is the default or was set to 210
InitDirect ==
    /\ hdr \in [Files -> Contents0]
    /\ hdr[1] = 1
    /\ cfgMax \in {DefaultMaximumCacheSize, 210}
    /\ stats = ZeroStats
    /\ \/ /\ manifests = [m \in Srcs |-> NoManifest]
          /\ manOrder = <<>>
          /\ manDirs = {}
       \/ /\ manifests = [m \in Srcs |-> IF m = 2 THEN BrokenManifest ELSE NoManifest]
          /\ manOrder = <<2>>
          /\ manDirs = {ManifestShard(2)}
    /\ objects = [k \in Keys |-> NoObject]
    /\ objOrder = <<>>
    /\ objDirs = {}
    /\ IdleProcesses
    /\ gh = [InitGh EXCEPT !.alt = IF manOrder = <<>> THEN 0 ELSE -1]
    /\ AsideIdle
    /\ conc = FALSE
    /\ runsLeft = [p \in Jobs |-> IF p = "p1" THEN MaxRunsDirect ELSE 0]
    /\ editsLeft = MaxEditsDirect
    /\ maintLeft = 0

\* the steps of direct-mode jobs, of the eviction a job triggers, and header edits
NextDirect ==
    \/ \E p \in Jobs, m \in Srcs : StartJob(p, m, TRUE)
    \/ \E p \in Jobs : PdLockManifest(p)
    \/ \E p \in Jobs : PdProbe(p)
    \/ \E p \in Jobs : PdLockObject(p)
    \/ \E p \in Jobs : HitStats(p)
    \/ \E p \in Jobs : HitSave(p)
    \/ \E p \in Jobs : HitCopy(p)
    \/ \E p \in Jobs : PdCompile(p)
    \/ \E p \in Jobs : PdLockManifest2(p)
    \/ \E p \in Jobs : EaLockObject(p)
    \/ \E p \in Jobs : EaStats(p)
    \/ \E p \in Jobs : EaSave(p)
    \/ \E p \in Jobs : EaExtra(p)
    \/ \E p \in Jobs : GlStart(p)
    \/ \E p \in Jobs : GlLockManifests(p)
    \/ \E p \in Jobs : GlLockObjects(p)
    \/ \E p \in Jobs : GlStats(p)
    \/ \E p \in Jobs : GlBody(p)
    \/ \E f \in Files, c \in Contents0 : EditHeader(f, c)

\* four direct-mode jobs of one process with three header edits between them
SpecDirect == InitDirect /\ [][NextDirect]_vars

\* ------------------------------------------------------------- C11
\* hits, misses and entries after the n-th job of the alternating-header run
Progression(n) ==
    CASE n = 1 -> <<0, 1, 1>>
      [] n = 2 -> <<0, 2, 2>>
      [] n = 3 -> <<1, 2, 2>>
      [] OTHER -> <<2, 2, 2>>

\* the n-th job of an alternating-header run has just returned
AfterAlternatingJob(n) ==
    /\ AllIdle
    /\ cfgMax = DefaultMaximumCacheSize
    /\ gh.alt = 2 * n - 1

\* C11: from an empty cache, direct-mode jobs of one source whose header has the
\* contents A, B, A, B, one successful job after each change, leave hits, misses,
\* entries = 0,1,1 then 0,2,2 then 1,2,2 then 2,2,2; the one manifest of the source
\* holds one entry per header content seen, and the third and fourth job are hits
\* without a compiler run that deliver the objects built from A and from B
C11_AlternatingHeader ==
    \A n \in 1..4 :
        AfterAlternatingJob(n)
        => LET m == gh.first.src
               A == gh.first.out[2]
           IN  /\ <<stats.hits, stats.misses, stats.entries>> = Progression(n)
               /\ Readable(manifests[m])
               /\ Len(manifests[m].entries) = (IF n = 1 THEN 1 ELSE 2)
               /\ UniqueObjectHashes(manifests[m].entries)
               /\ n >= 3 => /\ res["p1"].outcome = "hit"
                             /\ ~res["p1"].compiled
                             /\ res["p1"].out[1] = m
                             /\ (res["p1"].out[2] = A) <=> (n = 3)

\* the fourth job of the run has returned with the second hit
C11_Witness == AfterAlternatingJob(4) /\ stats.hits = 2 /\ res["p1"].outcome = "hit"

\* ------------------------------------------------------------- C12
\* the real compiler of p's job has run and failed; the job is on its way through
\* ensureArtifactsExist
AfterFailedCompile(p) ==
    /\ pc[p] \in {"pd_lockman2", "ea_lockobj", "ea_stats", "ea_save", "ea_extra"}
    /\ jb[p].compiled
    /\ ~CorrectCompiliation(jb[p])

\* what a step of such a job does: nothing is stored, the miss is recorded once, in
\* the header-changed variant exactly when getManifest gave a manifest, and the job
\* returns the compiler's exit code without asking for a cleanup
FailedCompileStep(p) ==
    LET m == jb[p].src
    IN  /\ objects' = objects /\ objOrder' = objOrder /\ objDirs' = objDirs
        /\ manifests' = manifests /\ manDirs' = manDirs
        /\ stats'.entries = stats.entries /\ stats'.size = stats.size
        /\ stats'.hits = stats.hits
        /\ IF pc[p] = "ea_save"
           THEN /\ stats'.misses = stats.misses + 1
                /\ stats'.hdrMiss = stats.hdrMiss + (IF Readable(manifests[m]) THEN 1 ELSE 0)
                /\ stats'.srcMiss = stats.srcMiss + (IF Readable(manifests[m]) THEN 0 ELSE 1)
           ELSE stats' = stats
        /\ pc[p] = "ea_extra"
           => /\ pc'[p] = "idle"
              /\ res'[p].outcome = "miss"
              /\ res'[p].rc # 0

\* three jobs were run: the first stored an object built with header 1, the second
\* failed in the compiler, and the third ran, for the source of the first, after
\* header 1 had got back the content it had for the first
RestoredAfterFailure ==
    /\ AllIdle
    /\ cfgMax = DefaultMaximumCacheSize
    /\ gh.jobs = 3 /\ gh.fails = 1
    /\ gh.first.outcome = "miss" /\ gh.first.rc = 0
    /\ gh.first.inc = 1
    /\ res["p1"].rc = 0 /\ res["p1"].src = gh.first.src
    /\ gh.quiet
    /\ hdr[1] = gh.first.out[2]

\* C12: a job whose compiler run fails stores no object and no manifest, leaves
\* CacheEntries and CacheSize as they were and records one miss, the
\* header-changed one when the source had a manifest; a later job with the header
\* restored hits the entry stored before the failure
C12_FailedCompileNotCached ==
    /\ [][\A p \in Jobs : AfterFailedCompile(p) => FailedCompileStep(p)]_vars
    /\ [](RestoredAfterFailure
           => /\ res["p1"].outcome = "hit"
              /\ ~res["p1"].compiled
              /\ res["p1"].out = gh.first.out
              /\ stats.hits = 1 /\ stats.misses = 2 /\ stats.entries = 1)

\* the header was removed, the job for the same source failed and recorded the
\* header-changed miss, the header was restored and the third job hit
C12_Witness ==
    /\ RestoredAfterFailure
    /\ res["p1"].outcome = "hit"
    /\ stats.hdrMiss = 1 /\ stats.srcMiss = 1
    /\ stats.entries = 1

\* ------------------------------------------------------------- C13
\* the step in which p's job records its miss
RecordsMiss(p) == pc[p] = "ea_save" /\ pc'[p] = "ea_extra"

\* the miss counters of stats.txt
MissCounters(s) == <<s.misses, s.hdrMiss, s.srcMiss, s.evicted>>

\* one miss is recorded, the header-changed one exactly when getManifest returns a
\* manifest for the job's manifest hash, the source-changed one exactly when the
\* manifest file is absent or not JSON
OneMissWithReason(p) ==
    LET m == jb[p].src
    IN  MissCounters(stats') =
            IF Readable(manifests[m])
            THEN <<stats.misses + 1, stats.hdrMiss + 1, stats.srcMiss, stats.evicted>>
            ELSE <<stats.misses + 1, stats.hdrMiss, stats.srcMiss + 1, stats.evicted>>

\* p's job returns in this step
JobReturns(p) == pc[p] \in {"hit_copy", "ea_lockobj", "ea_extra"} /\ pc'[p] \in {"idle", "gl_start"}

\* the job that returns repeats the one before it, a header-changed miss with a
\* successful build: same source, no header edit and no eviction in between
RepeatsHeaderChangedMiss(p) ==
    /\ JobReturns(p)
    /\ res[p].outcome = "miss" /\ res[p].reason = "hdr" /\ res[p].rc = 0
    /\ jb[p].src = res[p].src
    /\ gh.quiet

\* C13: a direct-mode job that does not hit records exactly one miss, the
\* header-changed one if and only if a readable manifest existed for its manifest
\* hash, the source-changed one if and only if the manifest was absent or
\* malformed; after a header-changed miss with a successful build the next
\* identical compile is a hit, without a compiler run and without a further miss
C13_MissReason ==
    /\ [][\A p \in Jobs : RecordsMiss(p) => OneMissWithReason(p)]_vars
    /\ [][(\A p \in Jobs : pc[p] # "ea_save") => MissCounters(stats') = MissCounters(stats)]_vars
    /\ [](AllIdle => /\ stats.hits + stats.misses + gh.skips = gh.jobs
                      /\ stats.misses = stats.hdrMiss + stats.srcMiss)
    /\ [][\A p \in Jobs :
            RepeatsHeaderChangedMiss(p)
            => /\ res'[p].outcome = "hit"
               /\ ~res'[p].compiled
               /\ stats'.misses = gh.missRegs]_vars

\* a source-changed miss, an edit of the header, a header-changed miss that stored a
\* second entry, and the same compile once more: a hit
C13_Witness ==
    /\ AllIdle
    /\ gh.jobs = 3 /\ gh.fails = 0 /\ gh.skips = 0
    /\ editsLeft = MaxEditsDirect - 1
    /\ res["p1"].outcome = "hit"
    /\ stats.hits = 1 /\ stats.srcMiss = 1 /\ stats.hdrMiss = 1
    /\ stats.entries = 2
    /\ Len(manifests[res["p1"].src].entries) = 2

\* ------------------------------------------------------------- the Statistics document
StatOps == {"miss", "evicted", "hdr", "src", "hit", "reset"}

\* the method op of Statistics applied to the loaded document
StatisticsAfter(s, op) ==
    CASE op = "miss" -> RegisterCacheMiss(s)
      [] op = "evicted" -> RegisterEvictedMiss(s)
      [] op = "hdr" -> RegisterHeaderChangedMiss(s)
      [] op = "src" -> RegisterSourceChangedMiss(s)
      [] op = "hit" -> RegisterCacheHit(s)
      [] OTHER -> ResetCounters(s)

\* updateCacheStatistics(cache, method), resetStatistics(cache): under
\* statistics.lock the document is loaded, the method applied, the document saved
StatisticsCall(op) ==
    /\ AllIdle
    /\ statOpsLeft > 0
    /\ CanAcquire(locks, "mt", StatsLock)
    /\ stats' = StatisticsAfter(stats, op)
    /\ gh' = [gh EXCEPT !.plain = IF op = "miss" THEN @ + 1
                                  ELSE IF op = "reset" THEN 0 ELSE @,
                        !.alt = -1, !.quiet = FALSE]
    /\ statOpsLeft' = statOpsLeft - 1
    /\ UNCHANGED <<conc, hdr, cfgMax, manifests, manOrder, manDirs, objects, objOrder, objDirs,
                   locks, pc, jb, gl, st, res, runsLeft, editsLeft, maintLeft>>
    /\ UNCHANGED <<entryDirs, sePc, seJob, published, setsLeft, crashesLeft, mfEntries,
                   mfOpsLeft, faults, sj, fn>>

\* an empty cache, a header that is there or not
InitStatistics ==
    /\ InitCache
    /\ hdr[2] = 0
    /\ StudiesIdle
    /\ conc = FALSE
    /\ runsLeft = [p \in Jobs |-> IF p = "p1" THEN MaxRunsStats ELSE 0]
    /\ editsLeft = 0
    /\ maintLeft = MaxMaint
    /\ statOpsLeft = MaxStatOps
    /\ faults = NoFaults
    /\ sj = NoSchedule
    /\ fn = NoCall

NextStatistics ==
    \/ JobStep
    \/ \E cmd \in {"clean", "clear"} : MaintStart(cmd, 0)
    \/ \E op \in StatOps : StatisticsCall(op)

\* jobs of both modes, clcache -c or -C and calls of the methods of Statistics, one
\* after the other
SpecStatistics == InitStatistics /\ [][NextStatistics]_vars

\* ------------------------------------------------------------- C14
\* C14: in every state of the statistics document CacheMisses = EvictedMisses +
\* HeaderChangedMisses + SourceChangedMisses + the number of plain registerCacheMiss
\* calls since the last reset
C14_CounterConservation ==
    stats.misses = stats.evicted + stats.hdrMiss + stats.srcMiss + gh.plain

\* a no-direct miss, a reset, a direct miss, then registerEvictedMiss and
\* registerCacheMiss were called: three misses, two entries
C14_Witness ==
    /\ AllIdle
    /\ statOpsLeft = 0
    /\ stats.hits = 0 /\ stats.misses = 3
    /\ stats.evicted = 1 /\ stats.srcMiss = 1 /\ stats.hdrMiss = 0 /\ gh.plain = 1
    /\ stats.entries = 2
    /\ gh.jobs = 2 /\ gh.missRegs = 2

\* ------------------------------------------------------------- the order of the locks
NoLock == <<"none", 0>>

\* the lock whose acquire() process p calls next, by its position in the code
Requests(p) ==
    CASE pc[p] \in {"pd_lockman", "pd_lockman2"} -> ManLock(ManifestShard(jb[p].src))
      [] pc[p] \in {"pd_lockobj", "pn_lockobj", "ea_lockobj"} -> ObjLock(ObjectShard(jb[p].key))
      [] pc[p] \in {"hit_stats", "ea_stats", "gl_stats", "rs_stats"} -> StatsLock
      [] pc[p] \in {"gl_man", "gl_obj"} /\ gl[p].todo # <<>> -> Head(gl[p].todo)
      [] OTHER -> NoLock

\* the layer of a lock: manifest section, object section, statistics
Layer(l) == l[1]

HoldsLayer(p, layer) == \E l \in HeldBy(p) : Layer(l) = layer

\* ------------------------------------------------------------- C15
\* C15 as claimed: statistics.lock first, then manifestLock(m), then objectLock(k):
\* nobody calls acquire on statistics.lock while holding a section lock, nor on a
\* manifest section lock while holding an object section lock
C15_HierarchyAsSpecified ==
    \A p \in AllProcs :
        /\ Requests(p) = StatsLock => ~HoldsLayer(p, "man") /\ ~HoldsLayer(p, "obj")
        /\ Layer(Requests(p)) = "man" => ~HoldsLayer(p, "obj")

\* C15 amended: manifestLock(m) first, then objectLock(k), statistics.lock last:
\* nobody calls acquire on any lock while holding statistics.lock, nor on a manifest
\* section lock while holding an object section lock
C15_HierarchyInCode ==
    \A p \in AllProcs :
        /\ Requests(p) # NoLock => ~HoldsLayer(p, "stats")
        /\ Layer(Requests(p)) = "man" => ~HoldsLayer(p, "obj")

\* a job in ensureArtifactsExist calls acquire on statistics.lock while it holds the
\* manifest and the object section lock, and the other job waits for that manifest lock
C15_Witness ==
    /\ pc["p1"] = "ea_stats"
    /\ HoldsLayer("p1", "man") /\ HoldsLayer("p1", "obj")
    /\ Requests("p2") \in HeldBy("p1")

\* ------------------------------------------------------------- C16
\* p is inside processCacheHit
InProcessCacheHit(p) == pc[p] \in {"hit_stats", "hit_save", "hit_copy"}

\* C16 as claimed: no lock is ever acquired by a process that already holds it
C16_NoReentrance == \A l \in Locks : locks[l].count <= 1

\* C16 amended: the only lock a process acquires while holding it is the object
\* section lock of a job inside processCacheHit, which holds it exactly twice;
\* every acquisition is released again by the time the job has returned
C16_ReentranceOnHitPathOnly ==
    /\ \A l \in Locks :
          /\ locks[l].count <= 2
          /\ locks[l].count = 2
             => \E p \in Jobs : /\ locks[l].owner = p
                                /\ InProcessCacheHit(p)
                                /\ l = ObjLock(ObjectShard(jb[p].key))
    /\ \A p \in Jobs :
          /\ InProcessCacheHit(p)
             => locks[ObjLock(ObjectShard(jb[p].key))] = [owner |-> p, count |-> 2]
          /\ pc[p] = "idle" => HeldBy(p) = {}

\* a direct-mode job inside processCacheHit holds its object section lock twice and
\* its manifest section lock once
C16_Witness ==
    /\ pc["p1"] = "hit_save"
    /\ jb["p1"].direct
    /\ locks[ObjLock(ObjectShard(jb["p1"].key))] = [owner |-> "p1", count |-> 2]
    /\ locks[ManLock(ManifestShard(jb["p1"].src))] = [owner |-> "p1", count |-> 1]

\* ------------------------------------------------------------- timeouts and deaths
FreeLock == [owner |-> NoProc, count |-> 0]

\* a process that has not ended
Live(p) == p \in AllProcs /\ pc[p] # "exited"

\* the locks p still owns when CacheLockException has left its with statements:
\* the acquire loop of allSectionsLocked stands before the try, so the section locks
\* taken by the call that failed are not released by its finally
KeptAfterTimeout(p) ==
    IF pc[p] = "gl_man" THEN Range(gl[p].held)
    ELSE IF pc[p] = "gl_obj" THEN {l \in Range(gl[p].held) : Layer(l) = "obj"}
    ELSE {}

\* the job or command of p is over; its locals are gone
Ended(p, position) ==
    /\ pc' = [pc EXCEPT ![p] = position]
    /\ jb' = [q \in Jobs |-> IF q = p THEN InitJob ELSE jb[q]]
    /\ gl' = [gl EXCEPT ![p] = InitGl]

\* CacheLock.acquire: WaitForSingleObject returns WAIT_TIMEOUT because another
\* process owned the mutex for timeoutMs; CacheLockException is raised, nobody
\* catches it, the with statements it passes release their locks
LockTimeout(p) ==
    /\ faults.timeouts > 0
    /\ Requests(p) # NoLock
    /\ locks[Requests(p)].owner \notin {NoProc, p, Abandoned}
    /\ locks' = [l \in Locks |-> IF locks[l].owner = p /\ l \notin KeptAfterTimeout(p)
                                  THEN FreeLock ELSE locks[l]]
    /\ Ended(p, "failed")
    /\ faults' = [faults EXCEPT !.timeouts = @ - 1]
    /\ UNCHANGED <<conc, hdr, cfgMax, stats, manifests, manOrder, manDirs, objects, objOrder,
                   objDirs, st, res, runsLeft, editsLeft, maintLeft, gh>>
    /\ UNCHANGED <<entryDirs, sePc, seJob, published, setsLeft, crashesLeft, mfEntries,
                   mfOpsLeft, statOpsLeft, sj, fn>>

\* the mutexes the threads of an ended process owned are abandoned
AbandonedBy(lk, p) ==
    [l \in Locks |-> IF lk[l].owner = p THEN [owner |-> Abandoned, count |-> 0] ELSE lk[l]]

\* the process ends with the traceback of the exception
ProcessExit(p) ==
    /\ pc[p] = "failed"
    /\ locks' = AbandonedBy(locks, p)
    /\ Ended(p, "exited")
    /\ faults' = [faults EXCEPT !.abandoned = @ \cup HeldBy(p)]
    /\ UNCHANGED <<conc, hdr, cfgMax, stats, manifests, manOrder, manDirs, objects, objOrder,
                   objDirs, st, res, runsLeft, editsLeft, maintLeft, gh>>
    /\ UNCHANGED <<entryDirs, sePc, seJob, published, setsLeft, crashesLeft, mfEntries,
                   mfOpsLeft, statOpsLeft, sj, fn>>

\* the process is killed somewhere inside a job or a command
Crash(p) ==
    /\ faults.deaths > 0
    /\ pc[p] \notin {"idle", "failed", "exited"}
    /\ locks' = AbandonedBy(locks, p)
    /\ Ended(p, "exited")
    /\ faults' = [faults EXCEPT !.deaths = @ - 1, !.abandoned = @ \cup HeldBy(p)]
    /\ UNCHANGED <<conc, hdr, cfgMax, stats, manifests, manOrder, manDirs, objects, objOrder,
                   objDirs, st, res, runsLeft, editsLeft, maintLeft, gh>>
    /\ UNCHANGED <<entryDirs, sePc, seJob, published, setsLeft, crashesLeft, mfEntries,
                   mfOpsLeft, statOpsLeft, sj, fn>>

InitFaults ==
    /\ \/ InitCache /\ hdr[2] = 0
       \/ IdleProcesses /\ \E c \in Contents : WarmCache(c)
    /\ StudiesIdle
    /\ statOpsLeft = 0
    /\ faults = [timeouts |-> MaxTimeouts, deaths |-> MaxDeaths, abandoned |-> {}]
    /\ sj = NoSchedule
    /\ fn = NoCall
    /\ conc = TRUE
    /\ runsLeft = [p \in Jobs |-> MaxRunsConc]
    /\ editsLeft = 0
    /\ maintLeft = MaxMaint

NextFaults ==
    \/ Next
    \/ \E p \in AllProcs : LockTimeout(p)
    \/ \E p \in AllProcs : ProcessExit(p)
    \/ \E p \in AllProcs : Crash(p)

\* the concurrent jobs and commands with lock timeouts and process deaths
SpecFaults == InitFaults /\ [][NextFaults]_vars

\* ---------------------------------------------------------------------------- C17
\* C17: every lock a job acquired is released on every exit path of the protected
\* region, a lock timeout of a later acquisition included: a process that is outside
\* every protected region (idle, or left by CacheLockException) owns no lock.
C17_GuaranteedRelease ==
    \A p \in AllProcs : pc[p] \in {"idle", "failed"} => HeldBy(p) = {}

\* ---------------------------------------------------------------------------- C18
\* p is inside acquire and WaitForSingleObject has not returned
Waits(p) == Requests(p) # NoLock /\ ~CanAcquire(locks, p, Requests(p))

\* the step in which the acquire of p raises CacheLockException
TimesOut(p) == Requests(p) # NoLock /\ pc[p] # "failed" /\ pc'[p] = "failed"

\* the step in which an abandoned mutex l is waited for and obtained
TakenOver(l) == locks[l].owner = Abandoned /\ locks'[l] # locks[l]

\* nothing but the job of p is touched: no file, no result, no other process
OnlyJobOf(p) ==
    /\ UNCHANGED <<hdr, cfgMax, stats, manifests, manOrder, manDirs, objects, objOrder,
                   objDirs, res, gh>>
    /\ \A q \in AllProcs \ {p} : pc'[q] = pc[q] /\ gl'[q] = gl[q]
    /\ \A q \in Jobs \ {p} : jb'[q] = jb[q]
    /\ \A l \in Locks : locks[l].owner # p => locks'[l] = locks[l]

SourceOf(p) == IF p = "p1" THEN 1 ELSE 2

\* the futures that are done
Finished == {gh.done[i].job : i \in 1..Len(gh.done)}

\* what the future of worker p holds
ResultOf(p) == gh.done[CHOOSE i \in 1..Len(gh.done) : gh.done[i].job = p]

\* the futures as_completed may yield next: those that were done when it was called
\* come first, in the order of a set; the others follow as they complete
NextYield ==
    LET left == Finished \ Range(sj.consumed)
    IN  IF sj.initial \ Range(sj.consumed) # {}
        THEN sj.initial \ Range(sj.consumed)
        ELSE IF left = {} THEN {}
        ELSE {gh.done[CHOOSE i \in 1..Len(gh.done) :
                        /\ gh.done[i].job \in left
                        /\ \A k \in 1..(i - 1) : gh.done[k].job \notin left].job}

\* a loop that goes on after a non-zero exit code
ConsumeAll(exitCode, all) == IF all THEN "joining" ELSE "consuming"

\* if exitCode != 0: break; the loop also ends when every future was yielded
AfterResult(exitCode, all) == IF exitCode # 0 \/ all THEN "joining" ELSE "consuming"

\* cleanupRequired |= doCleanup
OrCleanup(required, doCleanup) == required \/ doCleanup

\* what the thread pool leaves alone
SjFrame ==
    /\ UNCHANGED <<conc, hdr, cfgMax, stats, manifests, manOrder, manDirs, objects, objOrder,
                   objDirs, locks, jb, st, res, runsLeft, editsLeft, maintLeft, gh>>
    /\ UNCHANGED <<entryDirs, sePc, seJob, published, setsLeft, crashesLeft, mfEntries,
                   mfOpsLeft, statOpsLeft, faults, fn>>

\* a worker of the pool takes the job of source SourceOf(p)
SjStartJob(p) ==
    /\ sj.phase \in {"submitted", "consuming", "printing", "joining"}
    /\ StartJob(p, SourceOf(p), sj.direct)

\* for future in concurrent.futures.as_completed(jobs): the first call of next()
SjAsCompleted ==
    /\ sj.phase = "submitted"
    /\ sj' = [sj EXCEPT !.phase = "consuming", !.initial = Finished]
    /\ UNCHANGED <<pc, gl>>
    /\ SjFrame

\* exitCode, out, err, doCleanup = future.result(); cleanupRequired |= doCleanup;
\* printOutAndErr(out, err); if exitCode != 0: break
\* (the two writes of printOutAndErr are steps of their own where the parent's
\* streams are observed; nothing else of the invocation depends on them)
SjConsume(p) ==
    /\ sj.phase = "consuming"
    /\ p \in NextYield
    /\ sj' = [sj EXCEPT !.consumed = Append(@, p),
                        !.exitCode = ResultOf(p).rc,
                        !.cleanupRequired = OrCleanup(@, ResultOf(p).cleanup),
                        !.wr = IF sj.observed
                               THEN [job |-> p, stream |-> "stdout", part |-> 0]
                               ELSE @,
                        !.phase = IF sj.observed
                                  THEN "printing"
                                  ELSE AfterResult(ResultOf(p).rc,
                                                   Range(sj.consumed) \cup {p} = Jobs)]
    /\ UNCHANGED <<pc, gl>>
    /\ SjFrame

\* leaving 'with ThreadPoolExecutor' waits for every worker; then
\* if cleanupRequired: cleanCache(cache), else return exitCode
SjJoin ==
    /\ sj.phase = "joining"
    /\ \A p \in Jobs : runsLeft[p] = 0 /\ pc[p] = "idle"
    /\ IF sj.cleanupRequired
       THEN /\ sj' = [sj EXCEPT !.phase = "cleaning"]
            /\ pc' = [pc EXCEPT !["mt"] = "gl_start"]
            /\ gl' = [gl EXCEPT !["mt"] = [InitGl EXCEPT !.cmd = "clean"]]
       ELSE /\ sj' = [sj EXCEPT !.phase = "returned"]
            /\ UNCHANGED <<pc, gl>>
    /\ SjFrame

\* cleanCache has returned: return exitCode
SjReturn ==
    /\ sj.phase = "cleaning"
    /\ pc["mt"] = "idle"
    /\ sj' = [sj EXCEPT !.phase = "returned", !.cleaned = TRUE]
    /\ UNCHANGED <<pc, gl>>
    /\ SjFrame

\* a header file is written or deleted while the invocation runs
EditWhileBuilding(f, c) ==
    /\ sj.phase \in {"submitted", "consuming", "joining"}
    /\ editsLeft > 0
    /\ hdr[f] # c
    /\ hdr' = [hdr EXCEPT ![f] = c]
    /\ editsLeft' = editsLeft - 1
    /\ gh' = [gh EXCEPT !.alt = -1, !.quiet = FALSE]
    /\ UNCHANGED <<aside, conc, cfgMax, stats, manifests, manOrder, manDirs, objects, objOrder,
                   objDirs, locks, pc, jb, gl, st, res, runsLeft, maintLeft>>

\* scheduleJobs has submitted processSingleSource for two sources to a pool of one
\* or two workers; the cache is empty or warm
InitSchedule ==
    /\ \/ /\ hdr \in [Files -> Contents0]
          /\ hdr[2] = 0
          /\ cfgMax \in {DefaultMaximumCacheSize, 210}
          /\ stats = ZeroStats
          /\ manifests = [m \in Srcs |-> NoManifest]
          /\ manOrder = <<>>
          /\ manDirs = {}
          /\ objects = [k \in Keys |-> NoObject]
          /\ objOrder = <<>>
          /\ objDirs = {}
          /\ IdleProcesses
          /\ gh = InitGh
       \/ IdleProcesses /\ \E c \in Contents : WarmCache(c)
    /\ StudiesIdle
    /\ statOpsLeft = 0
    /\ faults = NoFaults
    /\ fn = NoCall
    /\ sj \in {[NoSchedule EXCEPT !.phase = "submitted", !.direct = d] : d \in BOOLEAN}
    /\ conc \in BOOLEAN
    /\ runsLeft = [p \in Jobs |-> 1]
    /\ editsLeft = MaxEditsSchedule
    /\ maintLeft = 0

NextSchedule ==
    \/ \E p \in Jobs : SjStartJob(p)
    \/ \E p \in Jobs : PdLockManifest(p)
    \/ \E p \in Jobs : PdProbe(p)
    \/ \E p \in Jobs : PdLockObject(p)
    \/ \E p \in Jobs : HitStats(p)
    \/ \E p \in Jobs : HitSave(p)
    \/ \E p \in Jobs : HitCopy(p)
    \/ \E p \in Jobs : PdCompile(p)
    \/ \E p \in Jobs : PdLockManifest2(p)
    \/ \E p \in Jobs : EaLockObject(p)
    \/ \E p \in Jobs : EaStats(p)
    \/ \E p \in Jobs : EaSave(p)
    \/ \E p \in Jobs : EaExtra(p)
    \/ \E p \in Jobs : PnPreprocess(p)
    \/ \E p \in Jobs : PnLockObject(p)
    \/ \E p \in Jobs : PnCompile(p)
    \/ SjAsCompleted
    \/ \E p \in Jobs : SjConsume(p)
    \/ SjJoin
    \/ GlStart("mt")
    \/ GlLockManifests("mt")
    \/ GlLockObjects("mt")
    \/ GlStats("mt")
    \/ GlBody("mt")
    \/ SjReturn
    \/ \E f \in Files, c \in Contents0 : EditWhileBuilding(f, c)

\* one invocation with two source files: two workers, the scheduler, header edits
SpecSchedule == InitSchedule /\ [][NextSchedule]_vars

\* ---------------------------------------------------------------------------- C19
\* a job of the invocation stored an entry that brought the cache to its maximum size
InsertionFilledCache == \E i \in 1..Len(gh.done) : gh.done[i].cleanup

\* C19: when a job of an invocation has made an insertion after which CacheSize >=
\* MaximumCacheSize, cleanCache has run by the time the invocation returns, whatever
\* the order in which its jobs completed and whatever the other jobs returned.
C19_EvictionAlwaysTriggered ==
    sj.phase = "returned" /\ InsertionFilledCache => sj.cleaned

\* ---------------------------------------------------------------------------- C20
\* the place of the future of p in the order of completion
CompletedAt(p) == CHOOSE i \in 1..Len(gh.done) : gh.done[i].job = p

\* the completed jobs that returned non-zero, by their place in the order of completion
FailedAt == {i \in 1..Len(gh.done) : gh.done[i].rc # 0}

\* the first of them in the order of completion
FirstFailed == CHOOSE i \in FailedAt : \A k \in FailedAt : i <= k

\* every worker of the invocation has run its job to the end
WorkersDone == \A p \in Jobs : runsLeft[p] = 0 /\ pc[p] = "idle" /\ p \in Finished

\* no result was consumed after a non-zero one
StoppedAtNonZero ==
    \A i \in 1..(Len(sj.consumed) - 1) : ResultOf(sj.consumed[i]).rc = 0

\* C20 as stated: scheduleJobs returns 0 if every job returned 0, otherwise the exit
\* code of the first job, in completion order, that returned non-zero; nothing is
\* consumed after the first non-zero result, and every worker has run to completion
\* when scheduleJobs returns.
C20_FirstInCompletionOrder ==
    /\ StoppedAtNonZero
    /\ sj.phase = "returned" =>
          /\ WorkersDone
          /\ sj.exitCode = IF FailedAt = {} THEN 0 ELSE gh.done[FirstFailed].rc

\* results are consumed in the order of completion, but for those that were complete
\* when as_completed was called, which come first and in any order
ConsumedAsCompleted ==
    \A i, k \in 1..Len(sj.consumed) :
        i < k =>
            LET a == sj.consumed[i]
                b == sj.consumed[k]
            IN  /\ b \in sj.initial => a \in sj.initial
                /\ a \notin sj.initial /\ b \notin sj.initial => CompletedAt(a) < CompletedAt(b)

\* C20, amended: scheduleJobs returns 0 if every job returned 0, otherwise the exit
\* code of the first non-zero result it consumed; results are consumed in completion
\* order except that those already complete when consumption starts are taken first
\* and in no particular order; nothing is consumed after the first non-zero result,
\* and every worker has run to completion when scheduleJobs returns.
C20_FirstConsumedNonZero ==
    /\ StoppedAtNonZero
    /\ ConsumedAsCompleted
    /\ Range(sj.consumed) \subseteq Finished
    /\ sj.phase = "returned" =>
          /\ WorkersDone
          /\ sj.consumed # <<>>
          /\ sj.exitCode = ResultOf(sj.consumed[Len(sj.consumed)]).rc
          /\ (sj.exitCode = 0) = (FailedAt = {})
          /\ sj.exitCode = 0 => Range(sj.consumed) = Jobs

\* both jobs failed with different exit codes and scheduleJobs has returned the one
\* of the job that completed second, without consuming the other
C20_Witness ==
    /\ sj.phase = "returned"
    /\ Len(gh.done) = 2
    /\ gh.done[1].rc # 0 /\ gh.done[2].rc # 0 /\ gh.done[1].rc # gh.done[2].rc
    /\ sj.exitCode = gh.done[2].rc
    /\ Len(sj.consumed) = 1

\* ---------------------------------------------------------------------------- C21
\* the step of processCacheHit that saves the statistics: one more hit, nothing else
HitCounted(p) ==
    (pc[p] = "hit_save" /\ pc'[p] = "hit_copy")
    => /\ stats' = [stats EXCEPT !.hits = @ + 1]
       /\ UNCHANGED <<objects, manifests, cfgMax>>

\* the step in which processCacheHit returns: exit code 0, the artifacts stored under
\* the key, no cleanup, and no file of the cache changed
HitReturned(p) ==
    (pc[p] = "hit_copy" /\ pc'[p] # "hit_copy")
    => /\ objects[jb[p].key].present
       /\ res'[p].outcome = "hit" /\ res'[p].rc = 0
       /\ res'[p].out = objects[jb[p].key].obj
       /\ pc'[p] = "idle"
       /\ UNCHANGED <<stats, objects, manifests, cfgMax>>

\* C21: a cache hit on key k is performed under objectLock(k); it increments
\* CacheHits by exactly 1, puts the cached object in the place of objectFile, returns
\* exit code 0 with the stored output and cleanupRequired = false, and changes no
\* object entry, no manifest, no gauge and no other counter.
C21_CacheHitEffect ==
    /\ [](\A p \in Jobs : InProcessCacheHit(p)
            => locks[ObjLock(ObjectShard(jb[p].key))].owner = p)
    /\ [][\A p \in Jobs : HitCounted(p) /\ HitReturned(p)]_vars

\* ---------------------------------------------------------------------------- C22
\* the preprocessing run of the job of p is about to exit non-zero
PreprocessorFails(p) == pc[p] = "pn_preprocess" /\ IncludedContent(hdr) = 0

\* C22: when the preprocessing run of a no-direct job exits non-zero the job returns
\* that exit code with cleanupRequired = false, without running the full compile,
\* and leaves the statistics, every manifest and the object store unchanged.
C22_PreprocessorFailure ==
    [][\A p \in Jobs :
        PreprocessorFails(p) /\ pc'[p] # pc[p]
        => /\ pc'[p] = "idle"
           /\ res'[p].rc = ReturnCode(FALSE, jb[p].src) /\ res'[p].rc # 0
           /\ ~res'[p].compiled /\ ~res'[p].direct
           /\ UNCHANGED <<stats, manifests, manOrder, manDirs, objects, objOrder, objDirs,
                          cfgMax>>]_vars

\* a no-direct job has returned the exit code of its failed preprocessing run
C22_Witness ==
    \E p \in Jobs : /\ pc[p] = "idle" /\ res[p].outcome = "ppfail" /\ res[p].rc # 0
                     /\ gh.ppfails > 0

\* ------------------------------------------------------------- rejected invocations
\* the errors CommandLineAnalyzer.analyze raises
Rejections == {"InvalidArgument", "NoSourceFile", "MultipleSources", "CalledWithPch",
               "CalledForLinking", "ExternalDebugInfo", "CalledForPreprocessing"}

\* every rejection counted as an invalid argument
InvalidArgumentOnly(reason) == "CallsWithInvalidArgument"

\* processCompileRequest: the method of Statistics each except clause passes to
\* updateCacheStatistics, by the counter that method increments
CounterOf(reason) ==
    CASE reason = "InvalidArgument" -> "CallsWithInvalidArgument"
      [] reason = "NoSourceFile" -> "CallsWithoutSourceFile"
      [] reason = "MultipleSources" -> "CallsWithMultipleSourceFiles"
      [] reason = "CalledWithPch" -> "CallsWithPch"
      [] reason = "CalledForLinking" -> "CallsForLinking"
      [] reason = "ExternalDebugInfo" -> "CallsForExternalDebugInfo"
      [] reason = "CalledForPreprocessing" -> "CallsForPreprocessing"

\* Statistics.registerCall..: self._stats[key] += 1
RegisterCall(s, key) == [s EXCEPT !.calls[key] = @ + 1]

\* what a rejected invocation leaves alone in every step
RjFrame ==
    /\ UNCHANGED <<conc, hdr, cfgMax, manifests, manOrder, manDirs, objects, objOrder,
                   objDirs, gl, runsLeft, editsLeft, maintLeft>>
    /\ UNCHANGED <<entryDirs, sePc, seJob, published, setsLeft, crashesLeft, mfEntries,
                   mfOpsLeft, faults, sj, fn>>

\* processCompileRequest: CommandLineAnalyzer.analyze(cmdLine) raises the error of
\* reason for a command line that names source m
RjStart(p, m, reason) ==
    /\ pc[p] = "idle"
    /\ statOpsLeft > 0
    /\ conc \/ OthersIdle(p)
    /\ statOpsLeft' = statOpsLeft - 1
    /\ jb' = [jb EXCEPT ![p] = [InitJob EXCEPT !.src = m, !.reason = reason]]
    /\ pc' = [pc EXCEPT ![p] = "rj_stats"]
    /\ UNCHANGED <<stats, locks, st, res, gh>>
    /\ RjFrame

\* updateCacheStatistics: with cache.statistics.lock, cache.statistics as stats
RjStats(p) ==
    /\ pc[p] = "rj_stats"
    /\ CanAcquire(locks, p, StatsLock)
    /\ locks' = Acquired(locks, p, StatsLock)
    /\ st' = [st EXCEPT ![p] = stats]
    /\ pc' = [pc EXCEPT ![p] = "rj_save"]
    /\ UNCHANGED <<stats, jb, res, statOpsLeft, gh>>
    /\ RjFrame

\* method(stats); the document is saved and the lock released
RjSave(p) ==
    /\ pc[p] = "rj_save"
    /\ stats' = RegisterCall(st[p], CounterOf(jb[p].reason))
    /\ locks' = Released(locks, p, StatsLock)
    /\ pc' = [pc EXCEPT ![p] = "rj_compile"]
    /\ UNCHANGED <<jb, st, res, statOpsLeft, gh>>
    /\ RjFrame

\* exitCode, out, err = invokeRealCompiler(compiler, args); return exitCode
RjCompile(p) ==
    LET c == IncludedContent(hdr)
        m == jb[p].src
    IN  /\ pc[p] = "rj_compile"
        /\ Finish(p, "rejected", ReturnCode(c # 0, m), IF c # 0 THEN <<m, c>> ELSE <<0, 0>>,
                  FALSE)
        /\ UNCHANGED <<aside, conc, hdr, cfgMax, stats, manifests, manOrder, manDirs, objects,
                       objOrder, objDirs, locks, st, runsLeft, editsLeft, maintLeft>>

\* clcache -z (main): resetStatistics(cache)
RsStart ==
    /\ pc["mt"] = "idle"
    /\ maintLeft > 0
    /\ conc \/ OthersIdle("mt")
    /\ maintLeft' = maintLeft - 1
    /\ pc' = [pc EXCEPT !["mt"] = "rs_stats"]
    /\ gh' = [gh EXCEPT !.alt = -1, !.quiet = FALSE]
    /\ UNCHANGED <<aside, conc, hdr, cfgMax, stats, manifests, manOrder, manDirs, objects,
                   objOrder, objDirs, locks, jb, gl, st, res, runsLeft, editsLeft>>

\* resetStatistics: with cache.statistics.lock, cache.statistics as stats
RsStats ==
    /\ pc["mt"] = "rs_stats"
    /\ CanAcquire(locks, "mt", StatsLock)
    /\ locks' = Acquired(locks, "mt", StatsLock)
    /\ st' = [st EXCEPT !["mt"] = stats]
    /\ pc' = [pc EXCEPT !["mt"] = "rs_save"]
    /\ UNCHANGED <<aside, conc, hdr, cfgMax, stats, manifests, manOrder, manDirs, objects,
                   objOrder, objDirs, jb, gl, res, runsLeft, editsLeft, maintLeft, gh>>

\* stats.resetCounters(); the document is saved and the lock released
RsSave ==
    /\ pc["mt"] = "rs_save"
    /\ stats' = ResetCounters(st["mt"])
    /\ locks' = Released(locks, "mt", StatsLock)
    /\ pc' = [pc EXCEPT !["mt"] = "idle"]
    /\ gh' = [gh EXCEPT !.plain = 0]
    /\ UNCHANGED <<aside, conc, hdr, cfgMax, manifests, manOrder, manDirs, objects, objOrder,
                   objDirs, jb, gl, st, res, runsLeft, editsLeft, maintLeft>>

\* a compile job of one process, a clean, clear or reset command, and the rejected
\* invocation of another process, all at once
InitRejections ==
    /\ \/ InitCache /\ hdr[2] = 0
       \/ IdleProcesses /\ \E c \in Contents : WarmCache(c)
    /\ StudiesIdle
    /\ statOpsLeft = MaxRejections
    /\ faults = NoFaults
    /\ sj = NoSchedule
    /\ fn = NoCall
    /\ conc = TRUE
    /\ runsLeft = [p \in Jobs |-> IF p = "p1" THEN 1 ELSE 0]
    /\ editsLeft = 0
    /\ maintLeft = MaxMaint

NextRejections ==
    \/ Next
    \/ \E reason \in Rejections : RjStart("p2", 1, reason)
    \/ RjStats("p2")
    \/ RjSave("p2")
    \/ RjCompile("p2")
    \/ RsStart
    \/ RsStats
    \/ RsSave

SpecRejections == InitRejections /\ [][NextRejections]_vars

\* ---------------------------------------------------------------------------- C23
\* the counter the claim names for each rejection reason
Corresponding ==
    [InvalidArgument |-> "CallsWithInvalidArgument",
     NoSourceFile |-> "CallsWithoutSourceFile",
     MultipleSources |-> "CallsWithMultipleSourceFiles",
     CalledWithPch |-> "CallsWithPch",
     CalledForLinking |-> "CallsForLinking",
     ExternalDebugInfo |-> "CallsForExternalDebugInfo",
     CalledForPreprocessing |-> "CallsForPreprocessing"]

\* p is in processCompileRequest after analyze has rejected the command line
Rejected(p) == pc[p] \in {"rj_stats", "rj_save", "rj_compile"}

\* C23: for each rejection reason processCompileRequest increments exactly the one
\* corresponding counter by 1, under statistics.lock, changes no other counter, no
\* gauge, no manifest and no object entry, and then runs the real compiler and
\* returns its exit code.
C23_ClassifierRejections ==
    /\ [](\A p \in Jobs : pc[p] = "rj_save" => locks[StatsLock].owner = p)
    /\ [][\A p \in Jobs :
            Rejected(p) /\ pc'[p] # pc[p]
            => /\ UNCHANGED <<manifests, manOrder, manDirs, objects, objOrder, objDirs,
                              cfgMax>>
               /\ IF pc[p] = "rj_save"
                  THEN /\ stats' = [stats EXCEPT
                                      !.calls[Corresponding[jb[p].reason]] = @ + 1]
                       /\ pc'[p] = "rj_compile"
                  ELSE stats' = stats
               /\ pc[p] = "rj_compile"
                  => /\ pc'[p] = "idle"
                     /\ res'[p].outcome = "rejected"
                     /\ res'[p].rc = ReturnCode(IncludedContent(hdr) # 0, jb[p].src)]_vars

\* a call for linking was counted and passed to the real compiler while the other
\* process had stored a cache entry
C23_Witness ==
    /\ res["p2"].outcome = "rejected"
    /\ stats.calls = [NoCalls EXCEPT !["CallsForLinking"] = 1]
    /\ stats.entries > 0 /\ res["p1"].outcome = "miss"

\* ---------------------------------------------------------------------------- C24
\* the resettable counters of a statistics document
Counters(s) == <<s.hits, s.misses, s.evicted, s.hdrMiss, s.srcMiss, s.calls>>

\* C24: resetStatistics sets every resettable counter (hits, misses, the three miss
\* reasons and the seven call counters) to 0 and leaves CacheEntries, CacheSize, the
\* configuration, the manifests and the object store unchanged.
C24_Reset ==
    /\ [](pc["mt"] = "rs_save" => locks[StatsLock].owner = "mt")
    /\ [][(pc["mt"] = "rs_save" /\ pc'["mt"] # "rs_save")
          => /\ Counters(stats') = <<0, 0, 0, 0, 0, NoCalls>>
             /\ stats'.entries = stats.entries /\ stats'.size = stats.size
             /\ UNCHANGED <<cfgMax, manifests, manOrder, manDirs, objects, objOrder,
                            objDirs>>]_vars

\* the statistics were reset after misses and a rejected call had been counted, and
\* the entries the misses stored are still counted
C24_Witness ==
    /\ pc["mt"] = "idle" /\ maintLeft = 0
    /\ gh.missRegs > 0 /\ res["p2"].outcome = "rejected"
    /\ Counters(stats) = <<0, 0, 0, 0, 0, NoCalls>>
    /\ stats.entries > 0 /\ stats.size > 0

\* ------------------------------------------------------------- clearing
\* two compile jobs and clear commands, interleaved, on an empty or a warm cache
InitClear ==
    /\ \/ InitCache /\ hdr[2] = 0
       \/ IdleProcesses /\ \E c \in Contents : WarmCache(c)
    /\ AsideIdle
    /\ conc = TRUE
    /\ runsLeft = [p \in Jobs |-> MaxRunsConc]
    /\ editsLeft = 0
    /\ maintLeft = MaxClears

NextClear ==
    \/ JobStep
    \/ MaintStart("clear", 0)

SpecClear == InitClear /\ [][NextClear]_vars

\* ---------------------------------------------------------------------------- C25
\* the step in which clearCache returns
ClearReturns(p) == pc[p] = "gl_body" /\ gl[p].cmd = "clear" /\ pc'[p] = "idle"

\* the cache holds nothing and says so
Cleared(s, mans, mo, objs, oo) ==
    /\ s.size = 0 /\ s.entries = 0
    /\ mans = [m \in Srcs |-> NoManifest] /\ mo = <<>>
    /\ objs = [k \in Keys |-> NoObject] /\ oo = <<>>

MaxTraces == 1

Streams == {"stdout", "stderr"}

\* a writer that does not take OUTPUT_LOCK
NoOutputLock(owner) == TRUE

\* with OUTPUT_LOCK: a threading.Lock, taken when no thread holds it
OutputFree(owner) == owner = NoProc

\* what a thread puts on a stream in one piece
Piece(p, stream, kind, part) == [job |-> p, stream |-> stream, kind |-> kind, part |-> part]

\* printBinary: with OUTPUT_LOCK: stream.buffer.write(rawData) has begun
OutBegin ==
    /\ sj.phase = "printing"
    /\ sj.wr.part = 0
    /\ OutputFree(sj.outputLock)
    /\ sj' = [sj EXCEPT !.outputLock = "mt",
                        !.wr.part = 1,
                        !.written = Append(@, Piece(sj.wr.job, sj.wr.stream, "block", 1))]
    /\ UNCHANGED <<pc, gl>>
    /\ SjFrame

\* printBinary: the rest of rawData is written, stream.flush(), OUTPUT_LOCK released;
\* printOutAndErr goes on with stderr, the loop with 'if exitCode != 0: break'
OutEnd ==
    /\ sj.phase = "printing"
    /\ sj.wr.part = 1
    /\ sj' = [sj EXCEPT !.outputLock = NoProc,
                        !.written = Append(@, Piece(sj.wr.job, sj.wr.stream, "block", 2)),
                        !.wr = IF sj.wr.stream = "stdout"
                               THEN [job |-> sj.wr.job, stream |-> "stderr", part |-> 0]
                               ELSE NoSchedule.wr,
                        !.phase = IF sj.wr.stream = "stdout"
                                  THEN "printing"
                                  ELSE AfterResult(sj.exitCode, Range(sj.consumed) = Jobs)]
    /\ UNCHANGED <<pc, gl>>
    /\ SjFrame

\* printTraceStatement in a running worker: with OUTPUT_LOCK: print(...)
TraceLine(p) ==
    /\ sj.observed
    /\ sj.tracesLeft > 0
    /\ pc[p] # "idle"
    /\ OutputFree(sj.outputLock)
    /\ sj' = [sj EXCEPT !.tracesLeft = @ - 1,
                        !.written = Append(@, Piece(p, "stdout", "trace", 1))]
    /\ UNCHANGED <<pc, gl>>
    /\ SjFrame

\* scheduleJobs with two sources as in InitSchedule, the parent's streams observed,
\* no header edit during the build; the header may be absent (then job 1 fails)
InitOutput ==
    /\ \/ /\ hdr \in [Files -> Contents0]
          /\ hdr[2] = 0
          /\ cfgMax \in {DefaultMaximumCacheSize, 210}
          /\ stats = ZeroStats
          /\ manifests = [m \in Srcs |-> NoManifest]
          /\ manOrder = <<>>
          /\ manDirs = {}
          /\ objects = [k \in Keys |-> NoObject]
          /\ objOrder = <<>>
          /\ objDirs = {}
          /\ IdleProcesses
          /\ gh = InitGh
       \/ IdleProcesses /\ \E c \in Contents : WarmCache(c)
    /\ StudiesIdle
    /\ statOpsLeft = 0
    /\ faults = NoFaults
    /\ fn = NoCall
    /\ sj \in {[NoSchedule EXCEPT !.phase = "submitted", !.direct = d, !.observed = TRUE,
                                  !.tracesLeft = MaxTraces] : d \in BOOLEAN}
    /\ conc \in BOOLEAN
    /\ runsLeft = [p \in Jobs |-> 1]
    /\ editsLeft = 0
    /\ maintLeft = 0

NextOutput ==
    \/ \E p \in Jobs : SjStartJob(p)
    \/ \E p \in Jobs : PdLockManifest(p)
    \/ \E p \in Jobs : PdProbe(p)
    \/ \E p \in Jobs : PdLockObject(p)
    \/ \E p \in Jobs : HitStats(p)
    \/ \E p \in Jobs : HitSave(p)
    \/ \E p \in Jobs : HitCopy(p)
    \/ \E p \in Jobs : PdCompile(p)
    \/ \E p \in Jobs : PdLockManifest2(p)
    \/ \E p \in Jobs : EaLockObject(p)
    \/ \E p \in Jobs : EaStats(p)
    \/ \E p \in Jobs : EaSave(p)
    \/ \E p \in Jobs : EaExtra(p)
    \/ \E p \in Jobs : PnPreprocess(p)
    \/ \E p \in Jobs : PnLockObject(p)
    \/ \E p \in Jobs : PnCompile(p)
    \/ \E p \in Jobs : TraceLine(p)
    \/ SjAsCompleted
    \/ \E p \in Jobs : SjConsume(p)
    \/ OutBegin
    \/ OutEnd
    \/ SjJoin
    \/ GlStart("mt")
    \/ GlLockManifests("mt")
    \/ GlLockObjects("mt")
    \/ GlStats("mt")
    \/ GlBody("mt")
    \/ SjReturn

\* one invocation with two source files, its output observed
SpecOutput == InitOutput /\ [][NextOutput]_vars

\* the places in the parent's output where a piece of job p's block on a stream is
BlockOf(p, stream) ==
    {i \in 1..Len(sj.written) : /\ sj.written[i].kind = "block"
                                /\ sj.written[i].job = p
                                /\ sj.written[i].stream = stream}

\* job p's output is on the stream exactly once
WrittenOnce(p, stream) ==
    /\ Cardinality(BlockOf(p, stream)) = 2
    /\ \E i \in BlockOf(p, stream) : sj.written[i].part = 1

\* and as one block: nothing is written by anyone between its two pieces
Unbroken(p, stream) ==
    \A i \in BlockOf(p, stream) :
        sj.written[i].part = 1 => /\ i + 1 \in BlockOf(p, stream)
                                  /\ sj.written[i + 1].part = 2

\* the block of a is above the block of b
Above(a, b, stream) ==
    \A i \in BlockOf(a, stream), k \in BlockOf(b, stream) : i < k

\* a's result was consumed by the scheduler's loop before b's
ConsumedBefore(a, b) ==
    \E i, k \in 1..Len(sj.consumed) : i < k /\ sj.consumed[i] = a /\ sj.consumed[k] = b

\* the invocation has returned and every job exited with 0
AllJobsExitedZero ==
    /\ sj.phase = "returned"
    /\ Finished = Jobs
    /\ FailedAt = {}

\* C26 as stated: when all jobs of an invocation exit 0, the stdout and the stderr of
\* every job are in the parent's stdout/stderr exactly once, each as one unbroken
\* block, and the blocks are in the order in which the jobs completed
C26_OutputInCompletionOrder ==
    AllJobsExitedZero =>
        \A p \in Jobs, s \in Streams :
            /\ WrittenOnce(p, s)
            /\ Unbroken(p, s)
            /\ \A q \in Jobs \ {p} : CompletedAt(p) < CompletedAt(q) => Above(p, q, s)

\* C26 amended: when all jobs of an invocation exit 0, the stdout and the stderr of
\* every job are in the parent's stdout/stderr exactly once, each as one unbroken
\* block, and the blocks are in the order in which the scheduler consumed the jobs'
\* results (as C20_FirstConsumedNonZero describes it: completion order only among
\* the jobs that finished after as_completed was called)
C26_OutputInConsumptionOrder ==
    AllJobsExitedZero =>
        \A p \in Jobs, s \in Streams :
            /\ WrittenOnce(p, s)
            /\ Unbroken(p, s)
            /\ \A q \in Jobs \ {p} : ConsumedBefore(p, q) => Above(p, q, s)

\* both jobs exited 0, a worker printed a trace statement, and the blocks are not
\* in the order of completion
C26_Witness ==
    /\ AllJobsExitedZero
    /\ \E i \in 1..Len(sj.written) : sj.written[i].kind = "trace"
    /\ \E p, q \in Jobs : /\ CompletedAt(p) < CompletedAt(q)
                          /\ ConsumedBefore(q, p)
                          /\ Above(q, p, "stdout")

\* ------------------------------------------------- createManifestEntry, hashes
\* the longest include list given to createManifestEntry
MaxIncludes == 3
\* the longest list given to getIncludesContentHashForHashes, its longest element
MaxHashes == 2
MaxDigestLen == 2

\* include paths; their order as strings is the order of the numbers
Paths == {1, 2, 3}
\* the paths that start with CLCACHE_BASEDIR when it is set
BeneathBaseDir == {1, 2}
\* the characters of a hex digest (anything but the separator)
HexChars == {"a", "b"}

\* strings of at most n characters
Strings(n) == UNION {[1..k -> HexChars] : k \in 0..n}
\* lists of at most n elements of S
Lists(S, n) == UNION {[1..k -> S] : k \in 0..n}

\* HashAlgorithm(data).hexdigest(): MD5, taken to be free of collisions (two digests
\* are equal exactly when the data are)
HexDigest(data) == <<"md5", data>>

\* ','.join(listOfHashes)
RECURSIVE Join(_)
Join(listOfHashes) ==
    IF Len(listOfHashes) = 0 THEN <<>>
    ELSE IF Len(listOfHashes) = 1 THEN listOfHashes[1]
    ELSE listOfHashes[1] \o <<",">> \o Join(Tail(listOfHashes))

\* ManifestRepository.getIncludesContentHashForHashes
GetIncludesContentHashForHashes(listOfHashes) == HexDigest(Join(listOfHashes))

\* sorted(S) for a set of paths
RECURSIVE Sorted(_)
Sorted(S) ==
    IF S = {} THEN <<>>
    ELSE LET least == CHOOSE x \in S : \A y \in S : x <= y
         IN  <<least>> \o Sorted(S \ {least})

\* a builder that hashes the include list as it was given
AsGiven(includePaths) == includePaths

\* sortedIncludePaths = sorted(set(includePaths))
SortedIncludePaths(includePaths) == Sorted(Range(includePaths))

\* collapseBasedirToPlaceholder: the base directory at the start of a path becomes '?'
CollapseBasedirToPlaceholder(path, baseDir) ==
    IF baseDir /\ path \in BeneathBaseDir THEN <<"?", path>> ELSE <<"", path>>

\* computeKeyDirect: getStringHash(manifestHash + includesContentHash), two digests of
\* fixed length written one after the other
ComputeKeyDirect(manifestHash, includesContentHash) ==
    HexDigest(<<manifestHash, includesContentHash>>)

\* createManifestEntry; fileHashes is what getFileHashes finds on disk, baseDir
\* whether CLCACHE_BASEDIR is set
CreateManifestEntryOfList(manifestHash, includePaths, fileHashes, baseDir) ==
    LET sortedIncludePaths == SortedIncludePaths(includePaths)
        includeHashes == [i \in 1..Len(sortedIncludePaths) |->
                              fileHashes[sortedIncludePaths[i]]]
        safeIncludes == [i \in 1..Len(sortedIncludePaths) |->
                             CollapseBasedirToPlaceholder(sortedIncludePaths[i], baseDir)]
        includesContentHash == GetIncludesContentHashForHashes(includeHashes)
    IN  [includeFiles |-> safeIncludes,
         includesContentHash |-> includesContentHash,
         objectHash |-> ComputeKeyDirect(manifestHash, includesContentHash)]

\* two calls of createManifestEntry with one manifest hash and the same files on disk
CmeCall ==
    /\ fn.name = "createManifestEntry"
    /\ ~fn.returned
    /\ fn' = [fn EXCEPT !.returned = TRUE,
                        !.first = CreateManifestEntryOfList(fn.manifestHash, fn.a, fn.fileHashes,
                                                            fn.baseDir),
                        !.second = CreateManifestEntryOfList(fn.manifestHash, fn.b, fn.fileHashes,
                                                             fn.baseDir)]
    /\ UNCHANGED <<pipeline, entryDirs, sePc, seJob, published, setsLeft, crashesLeft,
                   mfEntries, mfOpsLeft, statOpsLeft, faults, sj>>

\* two calls of getIncludesContentHashForHashes
IchCall ==
    /\ fn.name = "getIncludesContentHashForHashes"
    /\ ~fn.returned
    /\ fn' = [fn EXCEPT !.returned = TRUE,
                        !.first = GetIncludesContentHashForHashes(fn.a),
                        !.second = GetIncludesContentHashForHashes(fn.b)]
    /\ UNCHANGED <<pipeline, entryDirs, sePc, seJob, published, setsLeft, crashesLeft,
                   mfEntries, mfOpsLeft, statOpsLeft, faults, sj>>

\* any two include lists over the same files, any two lists of digests
InitEntry ==
    /\ PipelineIdle
    /\ StudiesIdle
    /\ statOpsLeft = 0
    /\ faults = NoFaults
    /\ sj = NoSchedule
    /\ \/ fn \in [name : {"createManifestEntry"}, returned : {FALSE},
                  manifestHash : {<<"f">>}, baseDir : BOOLEAN,
                  fileHashes : [Paths -> Strings(1) \ {<<>>}],
                  a : Lists(Paths, MaxIncludes), b : Lists(Paths, MaxIncludes),
                  first : {"none"}, second : {"none"}]
       \/ fn \in [name : {"getIncludesContentHashForHashes"}, returned : {FALSE},
                  a : Lists(Strings(MaxDigestLen), MaxHashes),
                  b : Lists(Strings(MaxDigestLen), MaxHashes),
                  first : {"none"}, second : {"none"}]

NextEntry == CmeCall \/ IchCall

\* the two functions applied to every pair of bounded arguments
SpecEntry == InitEntry /\ [][NextEntry]_vars

\* b is a permutation of a or repeats elements of it: the same set of paths
SameIncludeSet(a, b) == Range(a) = Range(b)

\* every element is a digest: not the empty string
NonEmptyDigests(l) == \A i \in 1..Len(l) : l[i] # <<>>

\* C27: for a fixed manifest hash and fixed file contents createManifestEntry returns
\* the same includeFiles, includesContentHash and objectHash for every permutation
\* of the include list and for every list that repeats elements of it, whereas
\* getIncludesContentHashForHashes gives different hashes to any two different lists
\* of non-empty digests (different in order, in length or in element boundaries)
C27_OrderIndependence ==
    /\ fn.name = "createManifestEntry" /\ fn.returned /\ SameIncludeSet(fn.a, fn.b)
           => fn.first = fn.second
    /\ fn.name = "getIncludesContentHashForHashes" /\ fn.returned /\ fn.a # fn.b
         /\ NonEmptyDigests(fn.a) /\ NonEmptyDigests(fn.b)
           => fn.first # fn.second

\* the entries of a list of three paths and of its reverse, the base directory set
C27_Witness ==
    /\ fn.name = "createManifestEntry" /\ fn.returned
    /\ fn.a = <<1, 2, 3>> /\ fn.b = <<3, 2, 1>> /\ fn.baseDir
    /\ fn.fileHashes[1] # fn.fileHashes[2]
    /\ fn.first.includeFiles = <<<<"?", 1>>, <<"?", 2>>, <<"", 3>>>>

\* ------------------------------------------------------------------- jobCount
\* the longest command line given to jobCount, the longest tail of an /MP token
MaxTokens == 2
MaxTailLen == 2

Digits == {"0", "1", "4"}
\* the characters that follow /MP in a token
TailChars == Digits \cup {"-", ".", "f"}
Tails == UNION {[1..k -> TailChars] : k \in 0..MaxTailLen}
\* the tokens of a command line: /MP with every tail, and two that are no /MP
Tokens == {<<"/", "M", "P">> \o t : t \in Tails} \cup {<<"/", "c">>, <<"a", ".", "c">>}
\* multiprocessing.cpu_count() of the host; 0 stands for NotImplementedError
CpuCounts == {0, 1, 8}

\* re.match(r'^/MP(\d+)?$', arg)
IsMpSwitch(arg) ==
    /\ Len(arg) >= 3
    /\ arg[1] = "/" /\ arg[2] = "M" /\ arg[3] = "P"
    /\ \A i \in 4..Len(arg) : arg[i] \in Digits

DigitValue(d) == CASE d = "0" -> 0 [] d = "1" -> 1 [] d = "4" -> 4

\* int(count) for a string of decimal digits
RECURSIVE IntOf(_)
IntOf(count) ==
    IF Len(count) = 0 THEN 0
    ELSE 10 * IntOf(SubSeq(count, 1, Len(count) - 1)) + DigitValue(count[Len(count)])

\* jobCount(cmdLine)
JobCount(cmdLine, cpus) ==
    LET mpSwitches == SelectSeq(cmdLine, IsMpSwitch)
    IN  IF Len(mpSwitches) = 0 THEN 1
        ELSE LET mpSwitch == mpSwitches[Len(mpSwitches)]
                 count == SubSeq(mpSwitch, 4, Len(mpSwitch))
             IN  IF count # <<>> THEN IntOf(count)
                 ELSE IF cpus = 0 THEN 2 ELSE cpus

\* a call of jobCount
JcCall ==
    /\ fn.name = "jobCount"
    /\ ~fn.returned
    /\ fn' = [fn EXCEPT !.returned = TRUE, !.result = JobCount(fn.cmdLine, fn.cpus)]
    /\ UNCHANGED <<pipeline, entryDirs, sePc, seJob, published, setsLeft, crashesLeft,
                   mfEntries, mfOpsLeft, statOpsLeft, faults, sj>>

\* every command line of at most MaxTokens tokens on every host
InitJobCount ==
    /\ PipelineIdle
    /\ StudiesIdle
    /\ statOpsLeft = 0
    /\ faults = NoFaults
    /\ sj = NoSchedule
    /\ fn \in [name : {"jobCount"}, returned : {FALSE}, cmdLine : Lists(Tokens, MaxTokens),
               cpus : CpuCounts, result : {-1}]

NextJobCount == JcCall

SpecJobCount == InitJobCount /\ [][NextJobCount]_vars

\* the places of the tokens of the form /MP or /MP<digits> in a command line
MpPlaces(cmdLine) == {i \in 1..Len(cmdLine) : IsMpSwitch(cmdLine[i])}
LastMpPlace(cmdLine) == CHOOSE i \in MpPlaces(cmdLine) : \A k \in MpPlaces(cmdLine) : k <= i

\* what the claim says jobCount returns
Described(cmdLine, cpus, result) ==
    IF MpPlaces(cmdLine) = {} THEN result = 1
    ELSE LET last == cmdLine[LastMpPlace(cmdLine)]
         IN  IF Len(last) = 3
             THEN result = cpus \/ (cpus = 0 /\ result = 2)
             ELSE result = IntOf(SubSeq(last, 4, Len(last)))

\* C28: for every command line jobCount returns a positive integer (never 0): the
\* number in the last token of the form /MP<digits>, the host CPU count when the
\* last such token is a bare /MP, and 1 when no token has that form
C28_JobCount ==
    fn.name = "jobCount" /\ fn.returned =>
        /\ fn.result \in Nat \ {0}
        /\ Described(fn.cmdLine, fn.cpus, fn.result)

\* ------------------------------------------------------------- C29
\* the job that returns repeats the one before it, a direct-mode job that ended
\* with exit code 0 and an object file: same source, no header edit and no eviction
\* in between
RepeatsSuccessfulCompile(p) ==
    /\ JobReturns(p)
    /\ res[p].outcome \in {"hit", "miss", "skip"} /\ res[p].direct /\ res[p].rc = 0
    /\ jb[p].direct /\ jb[p].src = res[p].src
    /\ gh.quiet

\* C29: from every reachable cache state, when a direct-mode job has completed with
\* exit code 0 and an object file, the next job with the same inputs, with no
\* eviction and no input change in between, is a cache hit
C29_SuccessThenHit ==
    [][\A p \in Jobs : RepeatsSuccessfulCompile(p) => res'[p].outcome = "hit"]_vars

\* ------------------------------------------------------------- after eviction
\* jobs and commands of a warm cache: set-size and clean, then two jobs
MaxRunsWarm == 2
MaxMaintWarm == 2

\* jobs, header edits and maintenance commands one after the other, from an empty
\* cache as in InitSeq or from a warm one
InitEvicted ==
    \/ InitSeq
    \/ /\ IdleProcesses
       /\ \E c \in Contents : WarmCache(c)
       /\ AsideIdle
       /\ conc = FALSE
       /\ runsLeft = [p \in Jobs |-> IF p = "p1" THEN MaxRunsWarm ELSE 0]
       /\ editsLeft = 0
       /\ maintLeft = MaxMaintWarm

SpecEvicted == InitEvicted /\ [][NextSeq]_vars

\* ------------------------------------------------------------- C30
\* the entries of the manifest p's job read that match the current header contents
\* while their object is not in the object store
EvictedMatches(p) ==
    {i \in 1..Len(jb[p].lman) : /\ EntryMatches(jb[p].lman[i], hdr)
                                /\ ~objects[jb[p].lman[i].key].present}

\* p's job is in the case of C30
EvictedMatch(p) == jb[p].direct /\ EvictedMatches(p) # {}

\* p's job returns without having stored anything: a hit, or an object found present
ReturnsUnstored(p) == JobReturns(p) /\ pc[p] \in {"hit_copy", "ea_lockobj"}

\* p's job records its miss and stores the object: it ran the compiler, the miss is
\* a header-changed one and the object is under the key of such an entry
ReinsertStep(p) ==
    /\ jb[p].compiled
    /\ MissCounters(stats') =
           <<stats.misses + 1, stats.hdrMiss + 1, stats.srcMiss, stats.evicted>>
    /\ \E i \in EvictedMatches(p) : jb[p].key = jb[p].lman[i].key
    /\ objects'[jb[p].key].present
    /\ \A k \in Keys \ {jb[p].key} : objects'[k] = objects[k]

\* p's job ends after it stored the object of a matching entry
EndsReinsertion(p) ==
    /\ pc[p] = "ea_extra"
    /\ jb[p].direct
    /\ \E i \in 1..Len(jb[p].lman) : /\ EntryMatches(jb[p].lman[i], hdr)
                                     /\ jb[p].lman[i].key = jb[p].key

\* C30: when a manifest entry matches the current header contents but its object is
\* absent from the object store, the job runs the real compiler, re-inserts the
\* object under that entry's key without adding a manifest entry, records the miss
\* as HeaderChangedMiss, and a following identical compile is a cache hit
C30_EvictedObject ==
    /\ [][\A p \in Jobs : ReturnsUnstored(p) => ~EvictedMatch(p)]_vars
    /\ [][\A p \in Jobs : RecordsMiss(p) /\ EvictedMatch(p) => ReinsertStep(p)]_vars
    /\ [][\A p \in Jobs : EndsReinsertion(p) => /\ manifests' = manifests
                                                /\ res'[p].outcome = "miss"
                                                /\ res'[p].rc = 0]_vars
    /\ [][\A p \in Jobs : RepeatsHeaderChangedMiss(p) /\ jb[p].direct
                               => res'[p].outcome = "hit"]_vars

\* the entries of the manifest p's job read that match the current header contents
Matches(p) == {i \in 1..Len(jb[p].lman) : EntryMatches(jb[p].lman[i], hdr)}

\* entries match, and the object of every one of them is absent
AllMatchesEvicted(p) == jb[p].direct /\ Matches(p) # {} /\ Matches(p) = EvictedMatches(p)

\* p's job records its miss and stores the object: it ran the compiler, the miss is
\* a header-changed one and the object is under the key of a matching entry
ReinsertMatchStep(p) ==
    /\ jb[p].compiled
    /\ MissCounters(stats') =
           <<stats.misses + 1, stats.hdrMiss + 1, stats.srcMiss, stats.evicted>>
    /\ \E i \in Matches(p) : jb[p].key = jb[p].lman[i].key
    /\ objects'[jb[p].key].present
    /\ \A k \in Keys \ {jb[p].key} : objects'[k] = objects[k]

\* C30 where no matching entry has its object: when manifest entries match the
\* current header contents and the object of every one of them is absent, the job runs the
\* real compiler, re-inserts the object under the key of one of these entries
\* without adding a manifest entry, records the miss as HeaderChangedMiss, and a
\* following identical compile is a cache hit (when the object of another matching
\* entry is present the job is a hit on that entry)
C30_EveryMatchEvicted ==
    /\ [][\A p \in Jobs : ReturnsUnstored(p) => ~AllMatchesEvicted(p)]_vars
    /\ [][\A p \in Jobs : RecordsMiss(p) /\ AllMatchesEvicted(p) => ReinsertMatchStep(p)]_vars
    /\ [][\A p \in Jobs : EndsReinsertion(p) => /\ manifests' = manifests
                                                /\ res'[p].outcome = "miss"
                                                /\ res'[p].rc = 0]_vars
    /\ [][\A p \in Jobs : RepeatsHeaderChangedMiss(p) /\ jb[p].direct
                               => res'[p].outcome = "hit"]_vars

\* the cache was warm, set-size and clean removed both objects and kept both
\* manifests, a job then recorded a header-changed miss and stored its object again,
\* and the next job for the same source, with nothing in between, hit
C30_Witness ==
    /\ AllIdle
    /\ gh.jobs = 4 /\ gh.evictions = 1 /\ gh.quiet
    /\ stats.srcMiss = 2 /\ stats.hdrMiss = 1 /\ stats.misses = 3 /\ stats.hits = 1
    /\ res["p1"].outcome = "hit" /\ res["p1"].direct
    /\ Len(manifests[res["p1"].src].entries) = 1
    /\ objects[res["p1"].key].present

\* ------------------------------------------------------------- C31
\* p is between the hasEntry test that found nothing and the end of addObjectToCache
BetweenCheckAndInsertion(p) == pc[p] \in {"ea_stats", "ea_save"}

\* p performs setEntry: the step of ensureArtifactsExist that calls addObjectToCache
InsertsEntry(p) ==
    /\ pc[p] = "ea_save"
    /\ pc'[p] = "ea_extra"
    /\ CorrectCompiliation(jb[p])

\* the keys that have an entry in the object store
PresentKeys(objs) == {k \in Keys : objs[k].present}

\* both jobs missed on one key at once and both compiled successfully
BothCompiledOneKey ==
    /\ \A p \in Jobs : res[p].compiled /\ res[p].rc = 0
    /\ res["p1"].key = res["p2"].key
    /\ res["p1"].src = res["p2"].src

\* C31: setEntry(k, .) is performed only when hasEntry(k) is false, and from the
\* test to the insertion the job holds the object section lock of k without a
\* break; so an existing entry is never overwritten, each insertion adds one to
\* CacheEntries and the object's size to CacheSize, and while nothing was evicted
\* the gauges count every stored key exactly once, however many jobs compiled it
C31_SingleInsertion ==
    /\ [](\A p \in Jobs : BetweenCheckAndInsertion(p)
              => /\ locks[ObjLock(ObjectShard(jb[p].key))].owner = p
                 /\ ~objects[jb[p].key].present)
    /\ [][\A p \in Jobs : InsertsEntry(p)
              => /\ ~objects[jb[p].key].present
                 /\ objects'[jb[p].key].present
                 /\ \A k \in Keys \ {jb[p].key} : objects'[k] = objects[k]
                 /\ stats'.entries = stats.entries + 1
                 /\ stats'.size = stats.size + ObjSizeOf(jb[p].src)]_vars
    /\ [](maintLeft = MaxMaint /\ locks[StatsLock].owner = NoProc
              => /\ stats.entries = Cardinality(PresentKeys(objects))
                 /\ stats.size = SumObjectSizes(objects, objOrder))

\* on an empty cache both jobs compiled the same source at once: one of them
\* stored the object, the other found it under the lock and stored nothing
C31_Witness ==
    /\ AllIdle
    /\ maintLeft = MaxMaint
    /\ BothCompiledOneKey
    /\ res["p1"].outcome = "miss"
    /\ res["p2"].outcome = "skip"
    /\ stats.entries = 1
    /\ PresentKeys(objects) = {res["p1"].key}

\* ------------------------------------------------------------- C32
MaxEditsRace == 1

\* a header file is written or deleted while jobs run, though not between a
\* compiler's run and the hashing of the files it included
EditDuringJobs(f, c) ==
    /\ \A p \in Jobs : pc[p] # "pd_lockman2"
    /\ editsLeft > 0
    /\ hdr[f] # c
    /\ hdr' = [hdr EXCEPT ![f] = c]
    /\ editsLeft' = editsLeft - 1
    /\ gh' = [gh EXCEPT !.alt = -1, !.quiet = FALSE]
    /\ UNCHANGED <<aside, conc, cfgMax, stats, manifests, manOrder, manDirs, objects, objOrder,
                   objDirs, locks, pc, jb, gl, st, res, runsLeft, maintLeft>>

\* two processes compile once each, on an empty or a warm cache of the default
\* maximum size, and nothing is evicted
InitRace ==
    /\ \/ InitCache
       \/ IdleProcesses /\ \E c \in Contents : WarmCache(c)
    /\ AsideIdle
    /\ conc = TRUE
    /\ runsLeft = [p \in Jobs |-> 1]
    /\ editsLeft = MaxEditsRace
    /\ maintLeft = 0

NextRace ==
    \/ \E p \in Jobs, m \in Srcs, d \in BOOLEAN : StartJob(p, m, d)
    \/ \E p \in Jobs : PdLockManifest(p)
    \/ \E p \in Jobs : PdProbe(p)
    \/ \E p \in Jobs : PdLockObject(p)
    \/ \E p \in Jobs : HitStats(p)
    \/ \E p \in Jobs : HitSave(p)
    \/ \E p \in Jobs : HitCopy(p)
    \/ \E p \in Jobs : PdCompile(p)
    \/ \E p \in Jobs : PdLockManifest2(p)
    \/ \E p \in Jobs : EaLockObject(p)
    \/ \E p \in Jobs : EaStats(p)
    \/ \E p \in Jobs : EaSave(p)
    \/ \E p \in Jobs : EaExtra(p)
    \/ \E p \in Jobs : PnPreprocess(p)
    \/ \E p \in Jobs : PnLockObject(p)
    \/ \E p \in Jobs : PnCompile(p)
    \/ \E f \in Files, c \in Contents0 : EditDuringJobs(f, c)

\* two concurrent compile jobs while a header changes, without eviction
SpecRace == InitRace /\ [][NextRace]_vars

\* p found no usable manifest entry for its source and its compile succeeded
MissedAndBuilt(p) ==
    /\ res[p].direct
    /\ res[p].compiled
    /\ res[p].rc = 0
    /\ res[p].outcome \in {"miss", "skip"}

\* p, which found no matching manifest entry and compiled successfully, returns
\* from ensureArtifactsExist after q has returned from a successful compile of the
\* same source
SecondReturns(p, q) ==
    /\ p # q
    /\ pc[p] \in {"ea_lockobj", "ea_extra"}
    /\ pc'[p] = "idle"
    /\ jb[p].direct
    /\ ~jb[p].mhit
    /\ CorrectCompiliation(jb[p])
    /\ pc[q] = "idle"
    /\ MissedAndBuilt(q)
    /\ res[q].outcome = "miss"
    /\ res[q].src = jb[p].src

\* the entries of the manifest of source m
EntriesOf(mans, m) == {mans[m].entries[i] : i \in 1..Len(mans[m].entries)}

\* C32: when two jobs miss at once on one manifest hash and both build
\* successfully, then without eviction the manifest holds the new entries of both
\* after they have completed: the entry the first one wrote is still there when
\* the second returns, and the entry of the second is there too
C32_NoLostManifestEntries ==
    [][\A p, q \in Jobs : SecondReturns(p, q)
          => /\ jb[p].entry \in EntriesOf(manifests', jb[p].src)
             /\ \E e \in EntriesOf(manifests', jb[p].src) : e.key = res[q].key]_vars

\* C32 for header states of different contents, which give different object
\* hashes: the entries of both jobs are in the manifest when the second returns
C32_DifferentContents ==
    [][\A p, q \in Jobs : SecondReturns(p, q) /\ jb[p].entry.key # res[q].key
          => /\ jb[p].entry \in EntriesOf(manifests', jb[p].src)
             /\ \E e \in EntriesOf(manifests', jb[p].src) : e.key = res[q].key]_vars

\* both jobs found no manifest for the source, compiled it with different header
\* contents, and the manifest holds the two entries
C32_Witness ==
    /\ AllIdle
    /\ \A p \in Jobs : MissedAndBuilt(p) /\ res[p].reason = "src" /\ res[p].outcome = "miss"
    /\ res["p1"].src = res["p2"].src
    /\ res["p1"].key # res["p2"].key
    /\ Len(manifests[res["p1"].src].entries) = 2
    /\ \A p \in Jobs : \E e \in EntriesOf(manifests, res[p].src) : e.key = res[p].key

\* ------------------------------------------------------------- C33
\* an empty cache with a small maximum size, or a warm cache of the default size; two
\* compiling processes and a command of a third process beside them
InitLocks ==
    /\ \/ /\ hdr \in [Files -> Contents0]
          /\ hdr[2] = 0
          /\ cfgMax = 210
          /\ stats = ZeroStats
          /\ manifests = [m \in Srcs |-> NoManifest]
          /\ manOrder = <<>>
          /\ manDirs = {}
          /\ objects = [k \in Keys |-> NoObject]
          /\ objOrder = <<>>
          /\ objDirs = {}
          /\ IdleProcesses
          /\ gh = InitGh
       \/ IdleProcesses /\ \E c \in Contents : WarmCache(c)
    /\ AsideIdle
    /\ conc = TRUE
    /\ runsLeft = [p \in Jobs |-> MaxRunsConc]
    /\ editsLeft = 0
    /\ maintLeft = MaxMaint

\* the steps of process p after it was started
Progress(p) ==
    \/ p \in Jobs /\ \/ PdLockManifest(p) \/ PdProbe(p) \/ PdLockObject(p)
                     \/ HitStats(p) \/ HitSave(p) \/ HitCopy(p)
                     \/ PdCompile(p) \/ PdLockManifest2(p)
                     \/ EaLockObject(p) \/ EaStats(p) \/ EaSave(p) \/ EaExtra(p)
                     \/ PnPreprocess(p) \/ PnLockObject(p) \/ PnCompile(p)
    \/ GlStart(p) \/ GlLockManifests(p) \/ GlLockObjects(p) \/ GlStats(p) \/ GlBody(p)
    \/ p = "mt" /\ (RsStats \/ RsSave)

NextLocks ==
    \/ JobStep
    \/ \E cmd \in {"clean", "clear"} : MaintStart(cmd, 0)
    \/ MaintStart("setsize", 300)
    \/ RsStart
    \/ RsStats
    \/ RsSave

\* jobs of both modes, cleanCache, clearCache, set-size and resetStatistics at once;
\* a process that can take its next step takes it
SpecLocks == InitLocks /\ [][NextLocks]_vars /\ \A p \in AllProcs : WF_vars(Progress(p))

\* p waits in acquire for a lock another process owns
Blocked(p) == Requests(p) # NoLock /\ locks[Requests(p)].owner \notin {NoProc, p}

\* the processes of S wait for locks owned by processes of S
WaitCycle(S) == \A p \in S : Blocked(p) /\ locks[Requests(p)].owner \in S

\* the place of a lock in the global order: manifest sections by shard, object
\* sections by shard, statistics.lock
Rank(l) == CASE Layer(l) = "man" -> l[2]
             [] Layer(l) = "obj" -> Cardinality(Shards) + l[2]
             [] OTHER -> 2 * Cardinality(Shards) + 1

\* every acquire asks for a lock later in the order than the locks held, or for
\* the lock the process holds already
InGlobalOrder ==
    \A p \in AllProcs : Requests(p) # NoLock
        => \A l \in HeldBy(p) : Rank(l) < Rank(Requests(p)) \/ l = Requests(p)

C34_EntryGauge ==
    locks[StatsLock].owner = NoProc => stats.entries = Cardinality(PresentKeys(objects))

\* after a hit, an insertion and an eviction that removed some of the objects and
\* kept others, nobody holds statistics.lock
C34_Witness ==
    /\ locks[StatsLock].owner = NoProc
    /\ gh.evictions >= 1
    /\ gh.hitRegs >= 1
    /\ gh.missRegs >= 1
    /\ stats.entries = 1
    /\ Cardinality(PresentKeys(objects)) = 1

\* ------------------------------------------------------------- C35
\* the keys whose entry appears or changes in this step
StoredNow == {k \in Keys : objects'[k].present /\ objects'[k] # objects[k]}

\* the manifest entries that appear in this step
WrittenNow(m) == EntriesOf(manifests', m) \ EntriesOf(manifests, m)

\* the real compiler of job p exited with code 0 and left an object file
BuiltSuccessfully(p) == ReturnCode(jb[p].ok, jb[p].src) = 0 /\ jb[p].objc # <<0, 0>>

\* every entry that appears in the object store is stored by a job in
\* addObjectToCache whose compile succeeded
StoredBySuccessfulJob ==
    \A k \in StoredNow : \E p \in Jobs : /\ pc[p] = "ea_save"
                                        /\ pc'[p] = "ea_extra"
                                        /\ jb[p].key = k
                                        /\ BuiltSuccessfully(p)

\* every manifest entry that appears is written by a job in addManifest whose
\* compile succeeded
WrittenBySuccessfulJob ==
    \A m \in Srcs : \A e \in WrittenNow(m) : \E p \in Jobs : /\ pc[p] = "ea_extra"
                                                             /\ pc'[p] # "ea_extra"
                                                             /\ jb[p].src = m
                                                             /\ jb[p].entry = e
                                                             /\ BuiltSuccessfully(p)

\* C35: every entry of the object store was inserted by a job whose real compiler
\* exited with code 0 and whose object file existed, and every manifest entry was
\* written by such a job at a moment when the object of its objectHash was in the
\* object store
C35_OnlySuccessfulCompilesStored ==
    [][/\ StoredBySuccessfulJob
       /\ WrittenBySuccessfulJob
       /\ \A m \in Srcs : \A e \in WrittenNow(m) : objects[e.key].present]_vars

\* C35 without the moment: objects and manifest entries are stored by jobs whose
\* compile succeeded only
C35_StoredBySuccessfulJobs == [][StoredBySuccessfulJob /\ WrittenBySuccessfulJob]_vars

\* ------------------------------------------------------------- C36
\* a real-compiler subprocess started by job p is running: the full compile of
\* either mode or the preprocessor run of computeKeyNodirect
CompilerRunning(p) == pc[p] \in {"pd_compile", "pn_preprocess", "pn_compile", "rj_compile"}

\* C36: while a real-compiler subprocess that a job started is running, the job
\* holds no manifest section lock, no object section lock and not statistics.lock,
\* hence not the global cache lock either
C36_NoLockAcrossCompile == \A p \in Jobs : CompilerRunning(p) => HeldBy(p) = {}

\* job 1 has probed the manifest under its lock, found no matching entry and runs
\* the compiler holding nothing, while job 2, which compiled the same source, holds
\* that manifest lock and its object lock
C36_Witness ==
    /\ pc["p1"] = "pd_compile"
    /\ jb["p1"].reason = "hdr"
    /\ HeldBy("p1") = {}
    /\ pc["p2"] = "ea_stats"
    /\ jb["p2"].src = jb["p1"].src
    /\ ManLock(ManifestShard(jb["p1"].src)) \in HeldBy("p2")

\* ------------------------------------------------------------- C37
\* object files in the store when clean lists them
MaxObjectInfos == 3
Atimes == {1, 2, 3}
ObjectSizes == {100, 200}
Budgets == {0, 150, 250, 1000}

\* objectInfos as appended: (objectStat, cachekey), the cachekey being the place
ObjectInfos == Lists([atime : Atimes, size : ObjectSizes], MaxObjectInfos)

\* objectInfos.sort(key=lambda t: t[0].st_atime): ascending, equal times in the
\* order they were listed
RECURSIVE SortedByAtime(_, _)
SortedByAtime(infos, left) ==
    IF left = {} THEN <<>>
    ELSE LET i == CHOOSE i \in left : \A k \in left :
                      \/ infos[i].atime < infos[k].atime
                      \/ infos[i].atime = infos[k].atime /\ i <= k
         IN  <<i>> \o SortedByAtime(infos, left \ {i})

\* sum(x[0].st_size for x in objectInfos)
RECURSIVE SumSizes(_, _)
SumSizes(infos, places) ==
    IF places = {} THEN 0
    ELSE LET i == CHOOSE i \in places : TRUE
         IN  infos[i].size + SumSizes(infos, places \ {i})

\* for stat, cachekey in objectInfos: removeEntry; removedItems += 1;
\* currentSizeObjects -= stat.st_size; if currentSizeObjects < max: break
RECURSIVE RemoveLoop(_, _, _, _, _)
RemoveLoop(infos, order, i, currentSizeObjects, maxSize) ==
    IF i > Len(order) THEN [removedItems |-> i - 1, size |-> currentSizeObjects]
    ELSE LET c == currentSizeObjects - infos[order[i]].size
         IN  IF c < maxSize THEN [removedItems |-> i, size |-> c]
             ELSE RemoveLoop(infos, order, i + 1, c, maxSize)

\* CompilerArtifactsRepository.clean(maxCompilerArtifactsSize): the entries removed
\* and the pair returned
ArtifactsClean(infos, maxSize) ==
    LET order == SortedByAtime(infos, DOMAIN infos)
        r == RemoveLoop(infos, order, 1, SumSizes(infos, DOMAIN infos), maxSize)
    IN  [removed |-> {order[k] : k \in 1..r.removedItems},
         count |-> Len(infos) - r.removedItems,
         size |-> r.size]

\* a call of CompilerArtifactsRepository.clean
AcCall ==
    /\ fn.name = "artifactsClean"
    /\ ~fn.returned
    /\ fn' = [fn EXCEPT !.returned = TRUE, !.result = ArtifactsClean(fn.infos, fn.budget)]
    /\ UNCHANGED <<pipeline, entryDirs, sePc, seJob, published, setsLeft, crashesLeft,
                   mfEntries, mfOpsLeft, statOpsLeft, faults, sj>>

\* every store of at most MaxObjectInfos object files and every budget
InitArtifactsClean ==
    /\ PipelineIdle
    /\ StudiesIdle
    /\ statOpsLeft = 0
    /\ faults = NoFaults
    /\ sj = NoSchedule
    /\ fn \in [name : {"artifactsClean"}, returned : {FALSE}, infos : ObjectInfos,
               budget : Budgets,
               result : {[removed |-> {}, count |-> -1, size |-> -1]}]

NextArtifactsClean == AcCall

SpecArtifactsClean == InitArtifactsClean /\ [][NextArtifactsClean]_vars

\* the first n entries in ascending order of access time
OldestPrefix(infos, n) ==
    {SortedByAtime(infos, DOMAIN infos)[k] : k \in 1..n}

\* what is left after the n oldest entries are removed is below the budget
PrefixSuffices(infos, n, budget) ==
    SumSizes(infos, DOMAIN infos \ OldestPrefix(infos, n)) < budget

\* the removed entries are the n oldest, n being the least number from lowest on
\* that suffices (every entry when none does)
ShortestPrefixFrom(lowest, infos, budget, removed) ==
    \E n \in lowest..Len(infos) :
        /\ removed = OldestPrefix(infos, n)
        /\ \A k \in lowest..(n - 1) : ~PrefixSuffices(infos, k, budget)
        /\ PrefixSuffices(infos, n, budget) \/ n = Len(infos)

\* no removed entry was accessed after a surviving one; the pair returned is the
\* number and the summed size of the survivors
OldestRemovedAndCounted(infos, result) ==
    /\ \A i \in result.removed : \A k \in DOMAIN infos \ result.removed :
          infos[i].atime <= infos[k].atime
    /\ result.count = Cardinality(DOMAIN infos \ result.removed)
    /\ result.size = SumSizes(infos, DOMAIN infos \ result.removed)

\* C37: CompilerArtifactsRepository.clean(budget) removes exactly the shortest
\* prefix of the entries in ascending order of access time after which the
\* remaining size is below the budget; every removed entry is at least as old as
\* every survivor; nothing is removed when the total size is below the budget
\* already; the number and the summed size of the survivors are returned
C37_MinimalOldestPrefix ==
    fn.name = "artifactsClean" /\ fn.returned =>
        /\ ShortestPrefixFrom(0, fn.infos, fn.budget, fn.result.removed)
        /\ OldestRemovedAndCounted(fn.infos, fn.result)
        /\ PrefixSuffices(fn.infos, 0, fn.budget) => fn.result.removed = {}

\* C37 as the loop does it: the oldest entry is removed before the first test, so
\* the removed entries are the shortest prefix of at least one entry (of a store
\* that is not empty) after which the remaining size is below the budget
C37_ShortestNonEmptyPrefix ==
    fn.name = "artifactsClean" /\ fn.returned /\ fn.infos # <<>> =>
        /\ ShortestPrefixFrom(1, fn.infos, fn.budget, fn.result.removed)
        /\ OldestRemovedAndCounted(fn.infos, fn.result)

\* of three entries listed newest first the two oldest were removed and the newest
\* survives
C37_Witness ==
    /\ fn.name = "artifactsClean" /\ fn.returned
    /\ Len(fn.infos) = 3
    /\ fn.infos[1].atime = 3 /\ fn.infos[2].atime = 2 /\ fn.infos[3].atime = 1
    /\ fn.result.removed = {2, 3}
    /\ fn.result.count = 1

\* ------------------------------------------------------------- C38
\* manifest files in the repository when clean lists them
MaxManifestInfos == 3
ManifestFileSizes == {0, 100, 200}
ManifestFileInfos == Lists([atime : Atimes, size : ManifestFileSizes], MaxManifestInfos)

\* manifestFileInfos.sort(key=lambda t: t[0].st_atime, reverse=True): descending,
\* equal times in the order they were listed
RECURSIVE SortedByAtimeReverse(_, _)
SortedByAtimeReverse(infos, left) ==
    IF left = {} THEN <<>>
    ELSE LET i == CHOOSE i \in left : \A k \in left :
                      \/ infos[i].atime > infos[k].atime
                      \/ infos[i].atime = infos[k].atime /\ i <= k
         IN  <<i>> \o SortedByAtimeReverse(infos, left \ {i})

\* for stat, filepath in manifestFileInfos: if remainingObjectsSize + stat.st_size
\* <= maxManifestsSize: remainingObjectsSize += stat.st_size; else: os.remove
RECURSIVE KeepLoop(_, _, _, _, _, _)
KeepLoop(infos, order, i, kept, remainingObjectsSize, maxManifestsSize) ==
    IF i > Len(order) THEN [kept |-> kept, size |-> remainingObjectsSize]
    ELSE LET f == order[i]
         IN  IF remainingObjectsSize + infos[f].size <= maxManifestsSize
             THEN KeepLoop(infos, order, i + 1, kept \cup {f},
                           remainingObjectsSize + infos[f].size, maxManifestsSize)
             ELSE KeepLoop(infos, order, i + 1, kept, remainingObjectsSize, maxManifestsSize)

\* ManifestRepository.clean(maxManifestsSize) on the files at the places present:
\* the files left and the size returned
ManifestsClean(infos, present, maxManifestsSize) ==
    KeepLoop(infos, SortedByAtimeReverse(infos, present), 1, {}, 0, maxManifestsSize)

\* a call of ManifestRepository.clean, and a second call with the same budget
McCall ==
    /\ fn.name = "manifestsClean"
    /\ fn.calls < 2
    /\ fn' = [fn EXCEPT !.calls = @ + 1,
                        !.before = fn.present,
                        !.present = ManifestsClean(fn.infos, fn.present, fn.budget).kept,
                        !.result = ManifestsClean(fn.infos, fn.present, fn.budget).size]
    /\ UNCHANGED <<pipeline, entryDirs, sePc, seJob, published, setsLeft, crashesLeft,
                   mfEntries, mfOpsLeft, statOpsLeft, faults, sj>>

\* every repository of at most MaxManifestInfos manifest files and every budget
InitManifestsClean ==
    /\ PipelineIdle
    /\ StudiesIdle
    /\ statOpsLeft = 0
    /\ faults = NoFaults
    /\ sj = NoSchedule
    /\ \E infos \in ManifestFileInfos, budget \in Budgets :
          fn = [name |-> "manifestsClean", calls |-> 0, infos |-> infos, budget |-> budget,
                before |-> DOMAIN infos, present |-> DOMAIN infos, result |-> -1]

NextManifestsClean == McCall

SpecManifestsClean == InitManifestsClean /\ [][NextManifestsClean]_vars

\* the files of the first call in descending order of access time
NewestFirst == SortedByAtimeReverse(fn.infos, DOMAIN fn.infos)

\* the files a call deleted
DeletedNow == fn.before \ fn.present

\* the first call kept a prefix of the files, newest first: the longest whose size
\* is within the budget
KeptNewestPrefix ==
    \E n \in 0..Len(fn.infos) :
        /\ fn.present = {NewestFirst[k] : k \in 1..n}
        /\ SumSizes(fn.infos, fn.present) <= fn.budget
        /\ n < Len(fn.infos)
           => SumSizes(fn.infos, fn.present) + fn.infos[NewestFirst[n + 1]].size > fn.budget

\* the size returned is that of the files left and within the budget; a second call
\* deletes nothing; with a budget of 0 no file that is not empty is left
SizeAndRepeat ==
    /\ fn.result = SumSizes(fn.infos, fn.present)
    /\ fn.result <= fn.budget
    /\ fn.calls = 2 => DeletedNow = {}
    /\ fn.budget = 0 => \A f \in fn.present : fn.infos[f].size = 0

\* C38: ManifestRepository.clean(budget) keeps the manifests in descending order of
\* access time while their cumulative size stays within the budget and deletes all
\* the rest, so no surviving manifest is older than a deleted one; the size
\* returned is within the budget, a second clean with the same budget deletes
\* nothing, and clean(0) deletes every manifest that is not empty
C38_KeepsNewestPrefix ==
    fn.name = "manifestsClean" /\ fn.calls >= 1 =>
        /\ fn.calls = 1 => KeptNewestPrefix
        /\ fn.calls = 1 => \A f \in fn.present : \A g \in DeletedNow :
                               fn.infos[f].atime >= fn.infos[g].atime
        /\ SizeAndRepeat

\* C38 as the loop does it: going from the newest to the oldest, a manifest is
\* deleted exactly when it does not fit beside the newer ones that were kept
C38_KeepsWhatFits ==
    fn.name = "manifestsClean" /\ fn.calls >= 1 =>
        /\ fn.calls = 1 =>
              \A i \in 1..Len(fn.infos) :
                  LET newerKept == {NewestFirst[k] : k \in 1..(i - 1)} \cap fn.present
                  IN  NewestFirst[i] \in fn.present
                      <=> SumSizes(fn.infos, newerKept) + fn.infos[NewestFirst[i]].size
                          <= fn.budget
        /\ SizeAndRepeat

\* of three manifests the middle one did not fit and was deleted, the oldest one
\* fitted and was kept, and the second clean left both survivors
C38_Witness ==
    /\ fn.name = "manifestsClean" /\ fn.calls = 2
    /\ Len(fn.infos) = 3
    /\ fn.budget = 250
    /\ fn.infos[1].atime = 3 /\ fn.infos[2].atime = 2 /\ fn.infos[3].atime = 1
    /\ fn.present = {1, 3}
    /\ fn.result = 200

\* ------------------------------------------------------------- C39
\* the entries of the manifest p's job read that list an include file which does
\* not exist now: getIncludesContentHashForFiles raises IncludeNotFoundException
MissingIncludes(p) ==
    {i \in 1..Len(jb[p].lman) : jb[p].lman[i].inc # 0 /\ hdr[jb[p].lman[i].inc] = 0}

\* p's job is in the case of C39
HeaderMissing(p) == jb[p].direct /\ MissingIncludes(p) # {}

\* p's job goes on from the place idx of the loop over the manifest entries
ProbeStep(p) == pc[p] = "pd_probe" /\ pc'[p] # "pd_probe"

\* the entries from the place the loop is at that match
MatchesAhead(p) ==
    {i \in jb[p].idx..Len(jb[p].lman) : EntryMatches(jb[p].lman[i], hdr)}

\* the loop skips the entries with a missing include file and goes on in order: it
\* stops at the first entry ahead that matches, which has all its files, and
\* without one it leaves the manifest as it is and goes to the compiler; the
\* manifest is rewritten only for a match that is not at the top
SkipsAndContinues(p) ==
    /\ MatchesAhead(p) # {}
       => /\ pc'[p] = "pd_lockobj"
          /\ \E i \in MatchesAhead(p) :
                /\ \A k \in MatchesAhead(p) : i <= k
                /\ i \notin MissingIncludes(p)
                /\ jb'[p].key = jb[p].lman[i].key
                /\ manifests' # manifests => i > 1
    /\ MatchesAhead(p) = {}
       => /\ pc'[p] = "pd_compile"
          /\ manifests' = manifests

\* C39: a manifest entry one of whose include files no longer exists is treated as
\* not matching and skipped, probing goes on with the remaining entries in order,
\* the skip alone does not modify or rewrite the manifest, and when no entry
\* matches the job runs the real compiler and is recorded as a miss
C39_MissingHeader ==
    /\ [][\A p \in Jobs : ProbeStep(p) /\ HeaderMissing(p) => SkipsAndContinues(p)]_vars
    /\ [][\A p \in Jobs : JobReturns(p) /\ HeaderMissing(p) /\ Matches(p) = {}
              => /\ jb[p].compiled
                 /\ res'[p].outcome = "miss"]_vars

\* C39 with the last part for a job whose compile gives an object hash that is not
\* in the store: it records a miss
C39_MissingHeaderNewObject ==
    /\ [][\A p \in Jobs : ProbeStep(p) /\ HeaderMissing(p) => SkipsAndContinues(p)]_vars
    /\ [][\A p \in Jobs : JobReturns(p) /\ HeaderMissing(p) /\ Matches(p) = {}
              => /\ jb[p].compiled
                 /\ ~objects[jb[p].key].present => res'[p].outcome = "miss"]_vars

\* the only entry of the manifest lists a header that is gone: the job has skipped
\* it, left the manifest lock and runs the real compiler
C39_Witness ==
    /\ pc["p1"] = "pd_compile"
    /\ HeaderMissing("p1")
    /\ Matches("p1") = {}
    /\ jb["p1"].reason = "hdr"
    /\ manifests[jb["p1"].src].entries = jb["p1"].lman

\* ------------------------------------------------------------- C40
\* arguments of a command line
MaxArgs == 2

\* arguments as Python strings: sequences of characters
ArgEHsc == <<"/", "E", "H", "s", "c">>
ArgOx == <<"/", "O", "x">>
ArgC == <<"/", "c">>
ArgE == <<"/", "E">>
ArgIdir == <<"/", "I", "d", "i", "r">>
ArgDX == <<"-", "D", "X">>
ArgFoout == <<"/", "F", "o", "o", "u", "t">>
ArgMP2 == <<"/", "M", "P", "2">>
ArgUtf8 == <<"/", "u", "t", "f", "-", "8">>
ArgSource == <<"m", "a", "i", "n", ".", "c", "p", "p">>
ArgFa == <<"/", "F", "a">>

Args == {ArgEHsc, ArgOx, ArgC, ArgE, ArgIdir, ArgDX,
         ArgFoout, ArgMP2, ArgUtf8, ArgSource, ArgFa}

\* the switch of cl an argument is, without its parameter ("" for a file name)
SwitchOf(arg) ==
    CASE arg = ArgEHsc -> "EH"
      [] arg = ArgOx -> "O"
      [] arg = ArgC -> "c"
      [] arg = ArgE -> "E"
      [] arg = ArgIdir -> "I"
      [] arg = ArgDX -> "D"
      [] arg = ArgFoout -> "Fo"
      [] arg = ArgMP2 -> "MP"
      [] arg = ArgUtf8 -> "utf-8"
      [] arg = ArgSource -> ""
      [] arg = ArgFa -> "Fa"

\* str.startswith
StartsWith(str, prefix) ==
    Len(str) >= Len(prefix) /\ SubSeq(str, 1, Len(prefix)) = prefix

\* argsToStrip of _normalizedCommandLine
ArgsToStrip ==
    {<<"A", "I">>, <<"C">>, <<"E">>, <<"P">>, <<"F", "I">>,
     <<"u">>, <<"X">>, <<"F", "U">>, <<"D">>, <<"E", "P">>,
     <<"F", "x">>, <<"U">>, <<"I">>, <<"F", "o">>, <<"M", "P">>}

\* arg[0] in "/-" and arg[1:].startswith(argsToStrip)
Stripped(arg) ==
    /\ arg[1] \in {"/", "-"}
    /\ \E prefix \in ArgsToStrip : StartsWith(Tail(arg), prefix)

\* _normalizedCommandLine: [arg for arg in cmdline if not (..)]
NormalizedCommandLine(cmdline) == SelectSeq(cmdline, LAMBDA arg : ~Stripped(arg))

\* ' '.join(args)
RECURSIVE SpaceJoin(_)
SpaceJoin(args) ==
    IF args = <<>> THEN <<>>
    ELSE IF Len(args) = 1 THEN args[1]
    ELSE args[1] \o <<" ">> \o SpaceJoin(Tail(args))

\* computeKeyNodirect after the preprocessor run: the hash of the compiler hash,
\* ' '.join(normalizedCmdLine) and the preprocessed source
KeyOfNodirect(compilerHash, cmdline, preprocessed) ==
    HexDigest(<<compilerHash, SpaceJoin(NormalizedCommandLine(cmdline)), preprocessed>>)

\* two calls of computeKeyNodirect for one compiler and one preprocessed source
NcCall ==
    /\ fn.name = "normalizedCommandLine"
    /\ ~fn.returned
    /\ fn' = [fn EXCEPT !.returned = TRUE,
                        !.result = NormalizedCommandLine(fn.cmdLine),
                        !.key = KeyOfNodirect("cl", fn.cmdLine, "pp"),
                        !.otherKey = KeyOfNodirect("cl", fn.other, "pp")]
    /\ UNCHANGED <<pipeline, entryDirs, sePc, seJob, published, setsLeft, crashesLeft,
                   mfEntries, mfOpsLeft, statOpsLeft, faults, sj>>

\* every pair of command lines of at most MaxArgs arguments
InitNormalized ==
    /\ PipelineIdle
    /\ StudiesIdle
    /\ statOpsLeft = 0
    /\ faults = NoFaults
    /\ sj = NoSchedule
    /\ fn \in [name : {"normalizedCommandLine"}, returned : {FALSE},
               cmdLine : Lists(Args, MaxArgs), other : Lists(Args, MaxArgs),
               result : {<<>>}, key : {<<>>}, otherKey : {<<>>}]

NextNormalized == NcCall

SpecNormalized == InitNormalized /\ [][NextNormalized]_vars

\* the switches the claim lists
ListedSwitches ==
    {"AI", "C", "E", "P", "FI", "u", "X", "FU", "D", "EP", "Fx", "U", "I", "Fo", "MP"}

\* the arguments of a command line that are not one of the listed switches, in order
WithoutListed(cmdline) == SelectSeq(cmdline, LAMBDA arg : SwitchOf(arg) \notin ListedSwitches)

\* C40: _normalizedCommandLine drops an argument exactly when it is one of the
\* switches AI, C, E, P, FI, u, X, FU, D, EP, Fx, U, I, Fo or MP (with its
\* parameter) and keeps every other argument in order, so two command lines that
\* differ in a switch outside that list (/EHsc, /Ox, /c) get different no-direct
\* keys for the same preprocessed source
C40_DropsExactlyListed ==
    fn.name = "normalizedCommandLine" /\ fn.returned =>
        /\ fn.result = WithoutListed(fn.cmdLine)
        /\ WithoutListed(fn.cmdLine) # WithoutListed(fn.other) => fn.key # fn.otherKey

\* C40 in one direction: every listed switch is dropped, the arguments kept are in
\* their order, a file name and the switches /Ox, /c and /Fa are kept, and command
\* lines with the same arguments outside the list get the same key
C40_DropsListed ==
    fn.name = "normalizedCommandLine" /\ fn.returned =>
        /\ \A i \in 1..Len(fn.result) : SwitchOf(fn.result[i]) \notin ListedSwitches
        /\ fn.result = SelectSeq(WithoutListed(fn.cmdLine),
                                 LAMBDA arg : arg \in Range(fn.result))
        /\ {ArgOx, ArgC, ArgFa, ArgSource} \cap Range(fn.cmdLine) \subseteq Range(fn.result)
        /\ WithoutListed(fn.cmdLine) = WithoutListed(fn.other) => fn.key = fn.otherKey

\* the command lines /Ox /Idir and /Ox /Foout: the listed switches were dropped
\* and the keys are equal
C40_Witness ==
    /\ fn.name = "normalizedCommandLine" /\ fn.returned
    /\ fn.cmdLine = <<ArgOx, ArgIdir>>
    /\ fn.other = <<ArgFoout, ArgOx>>
    /\ fn.result = <<ArgOx>>
    /\ fn.key = fn.otherKey
====
